---- MODULE Spec2Model ----
(***************************************************************************)
(* TranscribAPP: the capture controller (src/src/audio_handler.py          *)
(* AudioRecorder, driven by src/main.py TranscribeApp.toggle_recording)    *)
(* and the processing pipeline (src/main.py TranscribeApp.process_audio,   *)
(* src/src/model_manager.py ModelManager).                                 *)
(*                                                                         *)
(* Every Python thread is a process with a program counter; one action is  *)
(* one statement that reads or writes a field shared between threads, so   *)
(* the unsynchronised accesses of the recorder interleave as they can in   *)
(* CPython.  Time is kept as the age of the silence timer (the only thing  *)
(* the code computes from silence_start_time, audio_handler.py:98); sleeps *)
(* and the bounded join are untimed: a sleep is a step, a join returns     *)
(* when its target is dead or when its timeout expires.                    *)
(***************************************************************************)
EXTENDS Integers, Sequences, FiniteSets, TLC

----------------------------------------------------------------------------
\* Bounds of the model
MaxPresses == 2        \* record-hotkey presses (each runs toggle_recording on its own thread)
MaxSamples == 3        \* audio samples the input device delivers in all
BufferCap == 2         \* int(sample_rate * buffer_duration), the deque's maxlen
SilenceDuration == 1   \* config silence_duration, in clock ticks
SilenceThreshold == 2  \* config silence_threshold
MaxRuns == 2           \* segments submitted to the pipeline (PipelineSpec)
MaxInits == 2          \* threads that run TranscribeApp.initialize_models (LoaderSpec)

Amps == {0, 3}         \* sample amplitudes the device can deliver

LoopIds == 1..MaxPresses                       \* capture threads (one per successful start)
Hotkeys == (MaxPresses + 1)..(2 * MaxPresses)  \* threads started by HotkeyManager._handle_hotkey
Threads == LoopIds \cup Hotkeys
InitIds == 1..MaxInits     \* 1: the thread of TranscribeApp.run, the others: of start_recording

NoThread == 0          \* recording_thread is None
NoTime == -1           \* silence_start_time is None
None == <<>>           \* Optional[...]: None
Some(x) == <<x>>       \* Optional[...]: a value

VARIABLES
  \* AudioRecorder (src/src/audio_handler.py)
  is_recording,        \* AudioRecorder.is_recording
  audio_buffer,        \* AudioRecorder.audio_buffer, a deque(maxlen=BufferCap) of samples
  silence_start_time,  \* NoTime, or the age (now - silence_start_time) of the timer
  recording_thread,    \* AudioRecorder.recording_thread: NoThread or a loop id
  pc,                  \* program counter of every thread
  ret,                 \* per thread: the value stop_recording returned (audio_data)
  inflight,            \* per stream: the chunk of the running _audio_callback
  arrived,             \* samples delivered so far; a sample is named by its arrival number
  \* TranscribeApp (src/main.py)
  app_is_recording,    \* TranscribeApp.is_recording
  runs,                \* one record per threading.Thread(target=self.process_audio)
  processing_lock,     \* TranscribeApp.processing_lock: 0 or the run holding it
  history,             \* data/transcription_history.json
  injected,            \* texts passed to text_injector.inject_text_safe
  \* ModelManager (src/src/model_manager.py)
  model_lock,          \* ModelManager.model_lock: 0 or the run holding it
  qwen_processor,      \* ModelManager.qwen_processor is loaded (TRUE) or None (FALSE)
  config,              \* ModelManager.config: llm.enabled, llm.enhance_translation,
                       \* quality.fix_technical_terms
  is_initialized,      \* ModelManager.is_initialized
  settings_pc,         \* the GUI thread applying saved settings (apply_config_changes)
  \* history variables (not program state)
  recent,              \* samples appended to audio_buffer since its last clear()
  captureBase,         \* value of arrived when start_recording last took the recorder out of Idle
  stopBase,            \* per thread: captureBase when its stop_recording cleared is_recording
  completeCalls,       \* per loop: the segments passed to callback_on_complete
  errorCalls,          \* per loop: number of callback_on_error invocations
  gateFired,           \* per loop: the silence gate fired in this loop
  disturbed,           \* per loop: it was not alone when created, or another thread
                       \* wrote a recorder field while it ran
  \* a text function applied on its own
  fn_input,            \* the arguments of the function
  fn_results,          \* the values returned so far
  \* the loading of the models
  init_pc,             \* per thread that runs TranscribeApp.initialize_models: where it is
  load_future,         \* per such thread: the future of executor.submit(self._load_whisper_model)
  whisper_model,       \* ModelManager.whisper_model is loaded (TRUE) or None (FALSE)
  translation_model,   \* ModelManager.translation_pipeline is loaded (TRUE) or None (FALSE)
  success,             \* per such thread: what ModelManager.initialize_models returned
  timed_out            \* (history) per such thread: future.result(timeout=30) timed out

recVars == <<is_recording, audio_buffer, silence_start_time, recording_thread,
             pc, ret, inflight, arrived, app_is_recording>>
ghostVars == <<recent, captureBase, stopBase, completeCalls, errorCalls, gateFired,
               disturbed>>
pipeVars == <<processing_lock, history, injected, model_lock, qwen_processor,
              config, is_initialized, settings_pc>>
fnVars == <<fn_input, fn_results>>
loadVars == <<init_pc, load_future, whisper_model, translation_model, success, timed_out>>
vars == <<recVars, ghostVars, pipeVars, runs, fnVars, loadVars>>

----------------------------------------------------------------------------
\* Pure helpers

RECURSIVE SumSq(_)
SumSq(s) == IF s = <<>> THEN 0 ELSE Head(s) * Head(s) + SumSq(Tail(s))

\* deque(maxlen=BufferCap).extend(chunk): append left to right, dropping the
\* oldest element whenever the length would exceed maxlen.
\* (faulty variant: a full buffer refuses the new sample instead of evicting)
RECURSIVE Extend_DropNewest(_, _)
Extend_DropNewest(buf, chunk) ==
  IF chunk = <<>> THEN buf
  ELSE Extend_DropNewest(IF Len(buf) >= BufferCap THEN buf ELSE Append(buf, Head(chunk)),
                         Tail(chunk))

RECURSIVE Extend(_, _)
Extend(buf, chunk) ==
  IF chunk = <<>> THEN buf
  ELSE LET b1 == Append(buf, Head(chunk))
           b2 == IF Len(b1) > BufferCap THEN Tail(b1) ELSE b1
       IN Extend(b2, Tail(chunk))

Last(s, n) == IF Len(s) <= n THEN s ELSE SubSeq(s, Len(s) - n + 1, Len(s))

Alive(l) == pc[l] \notin {"unborn", "done"}

\* the loop is inside `with sd.InputStream(...)` (audio_handler.py:92-102)
StreamOpen(l) ==
  pc[l] \in {"while", "check_timer", "elapsed", "sr_check", "sr_set", "sr_collect", "hc_cb", "close", "raise_close"}

Goto(t, label) == pc' = [pc EXCEPT ![t] = label]

\* the capture thread l ends: its history variables, except the count of its
\* error callbacks, are read no more
EndLoop(l) ==
  /\ completeCalls' = [completeCalls EXCEPT ![l] = <<>>]
  /\ gateFired' = [gateFired EXCEPT ![l] = FALSE]
  /\ disturbed' = [disturbed EXCEPT ![l] = FALSE]

\* thread t writes a field of the recorder: every other running loop is disturbed
Disturb(t) == [l \in LoopIds |-> disturbed[l] \/ (l # t /\ Alive(l))]

----------------------------------------------------------------------------
\* The application once TranscribeApp.__init__ (main.py:54-84) has run: the
\* recorder is Idle, no segment has been submitted.  The models are loaded in
\* ModelsLoaded; whether Qwen could be loaded is fixed by CaptureInit and
\* PipelineInit.
ProgramInit ==
  /\ is_recording = FALSE
  /\ audio_buffer = <<>>
  /\ silence_start_time = NoTime
  /\ recording_thread = NoThread
  /\ pc = [t \in Threads |-> IF t \in LoopIds THEN "unborn" ELSE "idle"]
  /\ ret = [t \in Threads |-> None]
  /\ inflight = [l \in LoopIds |-> None]
  /\ arrived = 0
  /\ app_is_recording = FALSE
  /\ runs = <<>>
  /\ processing_lock = 0
  /\ history = <<>>
  /\ injected = <<>>
  /\ model_lock = 0
  /\ settings_pc = "idle"
  /\ recent = <<>>
  /\ captureBase = 0
  /\ stopBase = [t \in Threads |-> 0]
  /\ completeCalls = [l \in LoopIds |-> <<>>]
  /\ errorCalls = [l \in LoopIds |-> 0]
  /\ gateFired = [l \in LoopIds |-> FALSE]
  /\ disturbed = [l \in LoopIds |-> FALSE]

\* TranscribeApp.run (main.py:379) has started the one thread that loads the
\* models, and ModelManager.initialize_models (model_manager.py:30-81) has
\* returned True in it
ModelsLoaded ==
  /\ is_initialized = TRUE
  /\ init_pc = [i \in InitIds |-> IF i = 1 THEN "done" ELSE "unborn"]
  /\ load_future = [i \in InitIds |-> IF i = 1 THEN "done" ELSE "none"]
  /\ whisper_model = TRUE
  /\ translation_model = TRUE
  /\ success = [i \in InitIds |-> IF i = 1 THEN Some(TRUE) ELSE None]
  /\ timed_out = [i \in InitIds |-> FALSE]

\* config.json as shipped
DefaultConfig == [enabled |-> TRUE, enhance_translation |-> TRUE,
                  fix_technical_terms |-> TRUE]

\* no function is being applied on its own
Init ==
  /\ ProgramInit
  /\ ModelsLoaded
  /\ config = DefaultConfig
  /\ fn_input = None /\ fn_results = <<>>

----------------------------------------------------------------------------
\* A pipeline run as created by threading.Thread(target=self.process_audio,
\* args=(audio_data,)) (main.py:216-220 and 227-231)
\* pc: where the thread is; text: transcribed_text; confidence in tenths;
\* result: what ModelManager.process_audio returned; status: the tray status
\* set by TranscribeApp.process_audio.  History fields: raw (what Whisper
\* produced), transcribed (what ModelManager.transcribe returned), stages (the
\* stages entered, in order), seen (the values of qwen_processor the run read),
\* tl_raised (the translation model raised in this run), corrected (the text
\* the Cleaning stage was given), clean_ai (whether the candidate of Qwen in
\* the Cleaning stage was "accepted" or "refused", "none" without a call),
\* raw_translation (what the translation model gave), enhance_ai (the same
\* for the Enhancing stage).
NoResult == [original |-> <<>>, translated |-> <<>>, error |-> "", llm_enhanced |-> FALSE]

NewRun(seg) ==
  [pc |-> "spawned", audio |-> seg, raw |-> <<>>, text |-> <<>>, translated |-> <<>>,
   confidence |-> 0, result |-> NoResult, status |-> "processing",
   transcribed |-> None, stages |-> <<>>, seen |-> {}, tl_raised |-> FALSE,
   corrected |-> <<>>, clean_ai |-> "none", raw_translation |-> <<>>,
   enhance_ai |-> "none"]

----------------------------------------------------------------------------
\* HotkeyManager._handle_hotkey (hotkey_manager.py:97-102): every press of the
\* record hotkey starts a new thread that runs TranscribeApp.toggle_recording
\* (main.py:179-187); enabled is never cleared here.  The thread exists from
\* its first statement on.
toggle_recording(h) ==
  /\ pc[h] = "idle"
  /\ \A g \in Hotkeys : g < h => pc[g] # "idle"
  /\ Goto(h, IF app_is_recording THEN "ap_check" ELSE "as_check")
  /\ UNCHANGED <<fnVars, loadVars, is_recording, audio_buffer, silence_start_time, recording_thread,
                 ret, inflight, arrived, app_is_recording, runs, ghostVars, pipeVars>>

\* (faulty variant: no capture is started while a run holds the processing lock)
StartRefused_WhileProcessing(recording, lock) == recording \/ lock # 0

\* main.py:190-191: `if self.is_recording: return`; the processing lock is
\* not looked at
StartRefused(recording, lock) == recording

\* TranscribeApp.start_recording (main.py:190-194): the guards
app_start_check(h) ==
  /\ pc[h] = "as_check"
  /\ Goto(h, IF StartRefused(app_is_recording, processing_lock) THEN "done"
             ELSE IF ~is_initialized THEN "as_init"
             ELSE "as_set")
  /\ UNCHANGED <<fnVars, loadVars, is_recording, audio_buffer, silence_start_time, recording_thread,
                 ret, inflight, arrived, app_is_recording, runs, ghostVars, pipeVars>>

\* main.py:198-201: self.is_recording = True, then audio_recorder.start_recording()
app_start_set(h) ==
  /\ pc[h] = "as_set"
  /\ app_is_recording' = TRUE
  /\ Goto(h, "rs_check")
  /\ UNCHANGED <<fnVars, loadVars, is_recording, audio_buffer, silence_start_time, recording_thread,
                 ret, inflight, arrived, runs, ghostVars, pipeVars>>

\* (faulty variant: the already-recording guard is missing)
rec_start_check_NoGuard(h) ==
  /\ pc[h] = "rs_check"
  /\ Goto(h, "rs_set")
  /\ UNCHANGED <<fnVars, loadVars, is_recording, audio_buffer, silence_start_time, recording_thread,
                 ret, inflight, arrived, app_is_recording, runs, ghostVars, pipeVars>>

\* AudioRecorder.start_recording (audio_handler.py:50-52): already recording -> False
rec_start_check(h) ==
  /\ pc[h] = "rs_check"
  /\ Goto(h, IF is_recording THEN "as_fail" ELSE "rs_set")
  /\ UNCHANGED <<fnVars, loadVars, is_recording, audio_buffer, silence_start_time, recording_thread,
                 ret, inflight, arrived, app_is_recording, runs, ghostVars, pipeVars>>

\* audio_handler.py:55: self.is_recording = True
rec_start_set(h) ==
  /\ pc[h] = "rs_set"
  /\ is_recording' = TRUE
  /\ captureBase' = IF is_recording THEN captureBase ELSE arrived
  /\ disturbed' = Disturb(h)
  /\ Goto(h, "rs_clear")
  /\ UNCHANGED <<fnVars, loadVars, audio_buffer, silence_start_time, recording_thread, ret, inflight,
                 arrived, app_is_recording, runs, recent, stopBase, completeCalls,
                 errorCalls, gateFired, pipeVars>>

\* audio_handler.py:56: self.audio_buffer.clear()
rec_start_clear(h) ==
  /\ pc[h] = "rs_clear"
  /\ audio_buffer' = <<>>
  /\ recent' = <<>>
  /\ disturbed' = Disturb(h)
  /\ Goto(h, "rs_timer")
  /\ UNCHANGED <<fnVars, loadVars, is_recording, silence_start_time, recording_thread, ret, inflight,
                 arrived, app_is_recording, runs, captureBase, stopBase, completeCalls,
                 errorCalls, gateFired, pipeVars>>

\* audio_handler.py:57: self.silence_start_time = None
rec_start_timer(h) ==
  /\ pc[h] = "rs_timer"
  /\ silence_start_time' = NoTime
  /\ disturbed' = Disturb(h)
  /\ Goto(h, "rs_thread")
  /\ UNCHANGED <<fnVars, loadVars, is_recording, audio_buffer, recording_thread, ret, inflight,
                 arrived, app_is_recording, runs, recent, captureBase, stopBase,
                 completeCalls, errorCalls, gateFired, pipeVars>>

\* audio_handler.py:58-62: create and start the capture thread, return True
\* (main.py:201-202 then only logs)
rec_start_thread(h) ==
  LET \* when h creates the capture thread l, another toggle is under way or another
      \* capture thread is running
      OthersActive(self, new) ==
        \/ \E g \in Hotkeys \ {self} : pc[g] \notin {"idle", "done"}
        \/ \E k \in LoopIds \ {new} : Alive(k)
  IN
  /\ pc[h] = "rs_thread"
  /\ \E l \in LoopIds :
       /\ pc[l] = "unborn"
       /\ \A k \in LoopIds : k < l => pc[k] # "unborn"
       /\ recording_thread' = l
       /\ pc' = [pc EXCEPT ![h] = "done", ![l] = "open"]
       /\ disturbed' = [disturbed EXCEPT ![l] = OthersActive(h, l)]
  /\ UNCHANGED <<fnVars, loadVars, is_recording, audio_buffer, silence_start_time, ret, inflight,
                 arrived, app_is_recording, runs, recent, captureBase, stopBase,
                 completeCalls, errorCalls, gateFired, pipeVars>>

\* main.py:203-205: start_recording returned False
app_start_fail(h) ==
  /\ pc[h] = "as_fail"
  /\ app_is_recording' = FALSE
  /\ Goto(h, "done")
  /\ UNCHANGED <<fnVars, loadVars, is_recording, audio_buffer, silence_start_time, recording_thread,
                 ret, inflight, arrived, runs, ghostVars, pipeVars>>

\* TranscribeApp.stop_recording (main.py:208-209)
app_stop_check(h) ==
  /\ pc[h] = "ap_check"
  /\ Goto(h, IF app_is_recording THEN "ap_set" ELSE "done")
  /\ UNCHANGED <<fnVars, loadVars, is_recording, audio_buffer, silence_start_time, recording_thread,
                 ret, inflight, arrived, app_is_recording, runs, ghostVars, pipeVars>>

\* main.py:211-214: self.is_recording = False, then audio_recorder.stop_recording()
app_stop_set(h) ==
  /\ pc[h] = "ap_set"
  /\ app_is_recording' = FALSE
  /\ Goto(h, "sr_check")
  /\ UNCHANGED <<fnVars, loadVars, is_recording, audio_buffer, silence_start_time, recording_thread,
                 ret, inflight, arrived, runs, ghostVars, pipeVars>>

\* where stop_recording returns to: main.py:215 for a hotkey thread,
\* audio_handler.py:127 for the capture thread
AfterStop(t) == IF t \in LoopIds THEN "hc_cb" ELSE "ap_spawn"

\* AudioRecorder.stop_recording (audio_handler.py:71-73): not recording -> None
rec_stop_check(t) ==
  /\ pc[t] = "sr_check"
  /\ IF is_recording
       THEN Goto(t, "sr_set") /\ ret' = ret
       ELSE Goto(t, AfterStop(t)) /\ ret' = [ret EXCEPT ![t] = None]
  /\ UNCHANGED <<fnVars, loadVars, is_recording, audio_buffer, silence_start_time, recording_thread,
                 inflight, arrived, app_is_recording, runs, ghostVars, pipeVars>>

\* audio_handler.py:75: self.is_recording = False
rec_stop_set(t) ==
  /\ pc[t] = "sr_set"
  /\ is_recording' = FALSE
  /\ disturbed' = Disturb(t)
  /\ stopBase' = [stopBase EXCEPT ![t] = captureBase]
  /\ Goto(t, "sr_collect")
  /\ UNCHANGED <<fnVars, loadVars, audio_buffer, silence_start_time, recording_thread, ret, inflight,
                 arrived, app_is_recording, runs, recent, captureBase, completeCalls,
                 errorCalls, gateFired, pipeVars>>

\* audio_handler.py:78-80: the join is skipped when there is no thread, when it
\* is dead, or when the caller is that thread
MustJoin(t) ==
  /\ recording_thread # NoThread
  /\ Alive(recording_thread)
  /\ t # recording_thread

\* (faulty variant: join() without timeout, also on the calling thread itself)
JoinReturns_Unbounded(t, timedOut) ==
  ~(recording_thread # NoThread /\ Alive(recording_thread))

\* join(timeout=1.0) returns when the thread has ended or the timeout expired
JoinReturns(t, timedOut) == ~MustJoin(t) \/ timedOut

\* (faulty variant: an empty buffer is returned as an empty segment)
StopResult_EmptySegment(buf) == Some(buf)

\* audio_handler.py:82-88: the buffered samples, or None when there are none
StopResult(buf) == IF Len(buf) > 0 THEN Some(buf) ELSE None

\* audio_handler.py:78-88: wait for the capture thread, then read the buffer
rec_stop_collect(t) ==
  /\ pc[t] = "sr_collect"
  /\ \E timedOut \in BOOLEAN : JoinReturns(t, timedOut)
  /\ ret' = [ret EXCEPT ![t] = StopResult(audio_buffer)]
  /\ Goto(t, AfterStop(t))
  /\ UNCHANGED <<fnVars, loadVars, is_recording, audio_buffer, silence_start_time, recording_thread,
                 inflight, arrived, app_is_recording, runs, ghostVars, pipeVars>>

\* main.py:215-222: start the processing thread, or report 'No audio captured'
app_stop_spawn(h) ==
  /\ pc[h] = "ap_spawn"
  /\ runs' = IF ret[h] # None THEN Append(runs, NewRun(ret[h][1])) ELSE runs
  /\ ret' = [ret EXCEPT ![h] = None]
  /\ stopBase' = [stopBase EXCEPT ![h] = 0]
  /\ Goto(h, "done")
  /\ UNCHANGED <<fnVars, loadVars, is_recording, audio_buffer, silence_start_time, recording_thread,
                 inflight, arrived, app_is_recording, recent, captureBase,
                 completeCalls, errorCalls, gateFired, disturbed, pipeVars>>

----------------------------------------------------------------------------
\* AudioRecorder._recording_loop (audio_handler.py:90-107), one per capture thread

\* audio_handler.py:92-93: entering `with sd.InputStream(...)`; opening the
\* device either succeeds or raises
loop_open(l) ==
  /\ pc[l] = "open"
  /\ \E ok \in BOOLEAN : Goto(l, IF ok THEN "while" ELSE "except_set")
  /\ UNCHANGED <<fnVars, loadVars, is_recording, audio_buffer, silence_start_time, recording_thread,
                 ret, inflight, arrived, app_is_recording, runs, ghostVars, pipeVars>>

\* audio_handler.py:94-95: while self.is_recording: time.sleep(0.1)
loop_while(l) ==
  /\ pc[l] = "while"
  /\ Goto(l, IF is_recording THEN "check_timer" ELSE "close")
  /\ UNCHANGED <<fnVars, loadVars, is_recording, audio_buffer, silence_start_time, recording_thread,
                 ret, inflight, arrived, app_is_recording, runs, ghostVars, pipeVars>>

\* audio_handler.py:97: if self.silence_start_time:
loop_check_timer(l) ==
  /\ pc[l] = "check_timer"
  /\ Goto(l, IF silence_start_time # NoTime THEN "elapsed" ELSE "while")
  /\ UNCHANGED <<fnVars, loadVars, is_recording, audio_buffer, silence_start_time, recording_thread,
                 ret, inflight, arrived, app_is_recording, runs, ghostVars, pipeVars>>

\* audio_handler.py:98-101: the second read of silence_start_time; None here is
\* a TypeError in `time.time() - None`; an elapsed timer calls
\* _handle_recording_complete, whose first statement is stop_recording()
\* (faulty variant: the gate never opens)
GateOpen_Never(age) == FALSE

GateOpen(age) == age >= SilenceDuration

loop_elapsed(l) ==
  /\ pc[l] = "elapsed"
  /\ IF silence_start_time = NoTime
       THEN Goto(l, "raise_close") /\ gateFired' = gateFired
       ELSE IF GateOpen(silence_start_time)
         THEN Goto(l, "sr_check") /\ gateFired' = [gateFired EXCEPT ![l] = TRUE]
         ELSE Goto(l, "while") /\ gateFired' = gateFired
  /\ UNCHANGED <<fnVars, loadVars, is_recording, audio_buffer, silence_start_time, recording_thread,
                 ret, inflight, arrived, app_is_recording, runs, recent, captureBase,
                 stopBase, completeCalls, errorCalls, disturbed, pipeVars>>

\* _handle_recording_complete (audio_handler.py:127-128) calling
\* TranscribeApp.on_recording_complete (main.py:224-231)
handle_complete(l) ==
  LET \* main.py:225: self.is_recording = False
      OnCompleteFlag(flag) == FALSE
  IN
  /\ pc[l] = "hc_cb"
  /\ IF ret[l] # None
       THEN /\ app_is_recording' = OnCompleteFlag(app_is_recording)
            /\ runs' = Append(runs, NewRun(ret[l][1]))
            /\ completeCalls' = [completeCalls EXCEPT ![l] = Append(@, ret[l][1])]
       ELSE UNCHANGED <<app_is_recording, runs, completeCalls>>
  /\ ret' = [ret EXCEPT ![l] = None]
  /\ stopBase' = [stopBase EXCEPT ![l] = 0]
  /\ Goto(l, "close")
  /\ UNCHANGED <<fnVars, loadVars, is_recording, audio_buffer, silence_start_time, recording_thread,
                 inflight, arrived, recent, captureBase, errorCalls, gateFired,
                 disturbed, pipeVars>>

\* leaving the `with` block (audio_handler.py:102 break, or the while condition
\* false): the stream is closed once its running callback has returned
loop_close(l) ==
  /\ pc[l] = "close"
  /\ inflight[l] = None
  /\ Goto(l, "done")
  /\ EndLoop(l)
  /\ UNCHANGED <<fnVars, loadVars, is_recording, audio_buffer, silence_start_time, recording_thread,
                 ret, inflight, arrived, app_is_recording, runs, recent, captureBase,
                 stopBase, errorCalls, pipeVars>>

\* an exception leaves the `with` block before the handler of line 103 runs
loop_raise_close(l) ==
  /\ pc[l] = "raise_close"
  /\ inflight[l] = None
  /\ Goto(l, "except_set")
  /\ UNCHANGED <<fnVars, loadVars, is_recording, audio_buffer, silence_start_time, recording_thread,
                 ret, inflight, arrived, app_is_recording, runs, ghostVars, pipeVars>>

\* audio_handler.py:103-105: except Exception: self.is_recording = False
loop_except_set(l) ==
  /\ pc[l] = "except_set"
  /\ is_recording' = FALSE
  /\ disturbed' = Disturb(l)
  /\ Goto(l, "except_cb")
  /\ UNCHANGED <<fnVars, loadVars, audio_buffer, silence_start_time, recording_thread, ret, inflight,
                 arrived, app_is_recording, runs, recent, captureBase, stopBase,
                 completeCalls, errorCalls, gateFired, pipeVars>>

\* audio_handler.py:106-107 calling TranscribeApp.on_recording_error (main.py:233-236)
\* (faulty variant: the handler leaves the application flag alone)
OnErrorFlag_Kept(flag) == flag

OnErrorFlag(flag) == FALSE

loop_except_cb(l) ==
  /\ pc[l] = "except_cb"
  /\ app_is_recording' = OnErrorFlag(app_is_recording)
  /\ errorCalls' = [errorCalls EXCEPT ![l] = @ + 1]
  /\ Goto(l, "done")
  /\ EndLoop(l)
  /\ UNCHANGED <<fnVars, loadVars, is_recording, audio_buffer, silence_start_time, recording_thread,
                 ret, inflight, arrived, runs, recent, captureBase, stopBase, pipeVars>>

----------------------------------------------------------------------------
\* AudioRecorder._audio_callback (audio_handler.py:109-123), run by the audio
\* subsystem on its own thread for every chunk of an open stream

\* audio_handler.py:113: if self.is_recording -- the chunk is taken or dropped
callback_check(l) ==
  LET \* audio_handler.py:117-119: rms = sqrt(mean(chunk**2)); rms < silence_threshold.
      \* For non-negative integers sqrt(S/n) < T  <=>  S < T*T*n.
      IsQuiet(chunk) == SumSq(chunk) < SilenceThreshold * SilenceThreshold * Len(chunk)
      \* the arrival numbers of the samples of a chunk
      Ids(first, count) == [i \in 1..count |-> first + i]
  IN
  /\ StreamOpen(l)
  /\ inflight[l] = None
  /\ is_recording
  /\ \E n \in 1..(MaxSamples - arrived) : \E amps \in [1..n -> Amps] :
       /\ arrived' = arrived + n
       /\ inflight' = [inflight EXCEPT ![l] =
                         Some([ids |-> Ids(arrived, n), quiet |-> IsQuiet(amps)])]
  /\ UNCHANGED <<fnVars, loadVars, is_recording, audio_buffer, silence_start_time, recording_thread,
                 pc, ret, app_is_recording, runs, ghostVars, pipeVars>>

\* audio_handler.py:114-123: extend the buffer, compute the loudness, set the timer
callback_store(l) ==
  LET \* audio_handler.py:119-123: the silence timer after a chunk
      TimerAfter(timer, quiet) ==
        IF quiet THEN (IF timer = NoTime THEN 0 ELSE timer) ELSE NoTime
  IN
  /\ inflight[l] # None
  /\ LET chunk == inflight[l][1] IN
       /\ audio_buffer' = Extend(audio_buffer, chunk.ids)
       /\ recent' = recent \o chunk.ids
       /\ silence_start_time' = TimerAfter(silence_start_time, chunk.quiet)
  /\ inflight' = [inflight EXCEPT ![l] = None]
  /\ UNCHANGED <<fnVars, loadVars, is_recording, recording_thread, pc, ret, arrived, app_is_recording,
                 runs, captureBase, stopBase, completeCalls, errorCalls, gateFired,
                 disturbed, pipeVars>>

\* the clock: a running silence timer grows older (its age matters only up to
\* silence_duration, audio_handler.py:99)
Tick ==
  /\ silence_start_time # NoTime
  /\ silence_start_time < SilenceDuration
  /\ silence_start_time' = silence_start_time + 1
  /\ UNCHANGED <<fnVars, loadVars, is_recording, audio_buffer, recording_thread, pc, ret, inflight,
                 arrived, app_is_recording, runs, ghostVars, pipeVars>>

----------------------------------------------------------------------------
HotkeyStep(h) ==
  \/ toggle_recording(h)
  \/ app_start_check(h)
  \/ app_start_set(h)
  \/ rec_start_check(h)
  \/ rec_start_set(h)
  \/ rec_start_clear(h)
  \/ rec_start_timer(h)
  \/ rec_start_thread(h)
  \/ app_start_fail(h)
  \/ app_stop_check(h)
  \/ app_stop_set(h)
  \/ app_stop_spawn(h)

StopStep(t) ==
  \/ rec_stop_check(t)
  \/ rec_stop_set(t)
  \/ rec_stop_collect(t)

LoopStep(l) ==
  \/ loop_open(l)
  \/ loop_while(l)
  \/ loop_check_timer(l)
  \/ loop_elapsed(l)
  \/ handle_complete(l)
  \/ loop_close(l)
  \/ loop_raise_close(l)
  \/ loop_except_set(l)
  \/ loop_except_cb(l)

CaptureNext ==
  \/ \E h \in Hotkeys : HotkeyStep(h)
  \/ \E t \in Threads : StopStep(t)
  \/ \E l \in LoopIds : LoopStep(l)
  \/ \E l \in LoopIds : callback_check(l)
  \/ \E l \in LoopIds : callback_store(l)
  \/ Tick

CaptureInit == Init /\ qwen_processor = TRUE

CaptureSpec == CaptureInit /\ [][CaptureNext]_vars

\* A capture is under way: an earlier press of the hotkey has run
\* TranscribeApp.start_recording to its end (main.py:198-202, audio_handler.py:
\* 55-62) and its thread is gone; capture thread 1 has opened its stream and
\* stands at `while self.is_recording`.  All presses are still to come.
RecordingInit ==
  /\ is_recording = TRUE
  /\ audio_buffer = <<>>
  /\ silence_start_time = NoTime
  /\ recording_thread = 1
  /\ pc = [t \in Threads |-> IF t = 1 THEN "while"
                             ELSE IF t \in LoopIds THEN "unborn" ELSE "idle"]
  /\ ret = [t \in Threads |-> None]
  /\ inflight = [l \in LoopIds |-> None]
  /\ arrived = 0
  /\ app_is_recording = TRUE
  /\ runs = <<>>
  /\ processing_lock = 0
  /\ history = <<>>
  /\ injected = <<>>
  /\ model_lock = 0
  /\ settings_pc = "idle"
  /\ recent = <<>>
  /\ captureBase = 0
  /\ stopBase = [t \in Threads |-> 0]
  /\ completeCalls = [l \in LoopIds |-> <<>>]
  /\ errorCalls = [l \in LoopIds |-> 0]
  /\ gateFired = [l \in LoopIds |-> FALSE]
  /\ disturbed = [l \in LoopIds |-> FALSE]
  /\ ModelsLoaded
  /\ config = DefaultConfig
  /\ qwen_processor = TRUE
  /\ fn_input = None /\ fn_results = <<>>

RestartSpec == RecordingInit /\ [][CaptureNext]_vars

----------------------------------------------------------------------------
\* The loading of the models.  TranscribeApp.run starts one thread that runs
\* TranscribeApp.initialize_models (main.py:135-177), start_recording starts
\* another whenever it finds the models not loaded (main.py:193-196); the
\* hotkeys are registered in __init__, before run.

\* main.py:379
run_start ==
  /\ init_pc[1] = "unborn"
  /\ init_pc' = [init_pc EXCEPT ![1] = "im_check"]
  /\ UNCHANGED <<fnVars, recVars, ghostVars, pipeVars, runs, load_future, whisper_model,
                 translation_model, success, timed_out>>

\* main.py:194-196: the status is set, the thread is started, start_recording
\* returns; at most MaxInits threads are started
app_start_init(h) ==
  /\ pc[h] = "as_init"
  /\ \E i \in InitIds \ {1} :
       /\ init_pc[i] = "unborn"
       /\ \A k \in InitIds \ {1} : k < i => init_pc[k] # "unborn"
       /\ init_pc' = [init_pc EXCEPT ![i] = "im_check"]
  /\ Goto(h, "done")
  /\ UNCHANGED <<fnVars, is_recording, audio_buffer, silence_start_time, recording_thread,
                 ret, inflight, arrived, app_is_recording, runs, ghostVars, pipeVars,
                 load_future, whisper_model, translation_model, success, timed_out>>

\* ModelManager.initialize_models, model_manager.py:35-39
im_check(i) ==
  /\ init_pc[i] = "im_check"
  /\ init_pc' = [init_pc EXCEPT ![i] = IF is_initialized THEN "im_result" ELSE "im_submit"]
  /\ success' = [success EXCEPT ![i] = IF is_initialized THEN Some(TRUE) ELSE @]
  /\ UNCHANGED <<fnVars, recVars, ghostVars, pipeVars, runs, load_future, whisper_model,
                 translation_model, timed_out>>

\* model_manager.py:46-49: executor.submit(self._load_whisper_model)
im_submit(i) ==
  /\ init_pc[i] = "im_submit"
  /\ load_future' = [load_future EXCEPT ![i] = "running"]
  /\ init_pc' = [init_pc EXCEPT ![i] = "im_wait"]
  /\ UNCHANGED <<fnVars, recVars, ghostVars, pipeVars, runs, whisper_model,
                 translation_model, success, timed_out>>

\* ModelManager._load_whisper_model (model_manager.py:88-125) in the worker
\* thread of the executor: the model is stored or the load raises; the worker
\* runs on after executor.shutdown(wait=False)
load_whisper(i) ==
  /\ load_future[i] = "running"
  /\ \E loaded \in BOOLEAN :
       /\ load_future' = [load_future EXCEPT ![i] = IF loaded THEN "done" ELSE "raised"]
       /\ whisper_model' = (whisper_model \/ loaded)
  /\ UNCHANGED <<fnVars, recVars, ghostVars, pipeVars, runs, init_pc, translation_model,
                 success, timed_out>>

\* (faulty variant: the load goes on after the timeout)
OnLoadTimeout_Continue == "im_translation"

\* model_manager.py:51-55 and 83: the TimeoutError is raised again and caught
\* by the handler of initialize_models
OnLoadTimeout == "im_except"

\* model_manager.py:50: future.result(timeout=30) returns, raises what the
\* load raised, or times out while the load is running
im_wait(i) ==
  /\ init_pc[i] = "im_wait"
  /\ init_pc' = [init_pc EXCEPT ![i] =
                   CASE load_future[i] = "done" -> "im_translation"
                     [] load_future[i] = "raised" -> "im_except"
                     [] OTHER -> OnLoadTimeout]
  /\ timed_out' = [timed_out EXCEPT ![i] = (load_future[i] = "running")]
  /\ UNCHANGED <<fnVars, recVars, ghostVars, pipeVars, runs, load_future, whisper_model,
                 translation_model, success>>

\* model_manager.py:60: self._load_translation_model() (127-154) stores the
\* pipeline or raises
im_translation(i) ==
  /\ init_pc[i] = "im_translation"
  /\ \E loaded \in BOOLEAN :
       /\ translation_model' = (translation_model \/ loaded)
       /\ init_pc' = [init_pc EXCEPT ![i] = IF loaded THEN "im_qwen" ELSE "im_except"]
  /\ UNCHANGED <<fnVars, recVars, ghostVars, pipeVars, runs, load_future, whisper_model,
                 success, timed_out>>

\* model_manager.py:66-74: with llm.enabled the processor of
\* get_qwen_processor() is initialized (True at once when it already is) and
\* kept, or dropped when initialize returns False
im_qwen(i) ==
  /\ init_pc[i] = "im_qwen"
  /\ IF config.enabled
       THEN \E loaded \in (IF qwen_processor THEN {TRUE} ELSE BOOLEAN) :
              qwen_processor' = loaded
       ELSE qwen_processor' = qwen_processor
  /\ init_pc' = [init_pc EXCEPT ![i] = "im_set"]
  /\ UNCHANGED <<fnVars, recVars, ghostVars, runs, processing_lock, history, injected,
                 model_lock, config, is_initialized, settings_pc, load_future,
                 whisper_model, translation_model, success, timed_out>>

\* model_manager.py:79-81
im_set(i) ==
  /\ init_pc[i] = "im_set"
  /\ is_initialized' = TRUE
  /\ success' = [success EXCEPT ![i] = Some(TRUE)]
  /\ init_pc' = [init_pc EXCEPT ![i] = "im_result"]
  /\ UNCHANGED <<fnVars, recVars, ghostVars, runs, processing_lock, history, injected,
                 model_lock, qwen_processor, config, settings_pc, load_future,
                 whisper_model, translation_model, timed_out>>

\* model_manager.py:83-86
im_except(i) ==
  /\ init_pc[i] = "im_except"
  /\ is_initialized' = FALSE
  /\ success' = [success EXCEPT ![i] = Some(FALSE)]
  /\ init_pc' = [init_pc EXCEPT ![i] = "im_result"]
  /\ UNCHANGED <<fnVars, recVars, ghostVars, runs, processing_lock, history, injected,
                 model_lock, qwen_processor, config, settings_pc, load_future,
                 whisper_model, translation_model, timed_out>>

\* TranscribeApp.initialize_models, main.py:150-177: the status is set to
\* 'ready' or to 'error', the thread ends
im_result(i) ==
  /\ init_pc[i] = "im_result"
  /\ init_pc' = [init_pc EXCEPT ![i] = "done"]
  /\ UNCHANGED <<fnVars, recVars, ghostVars, pipeVars, runs, load_future, whisper_model,
                 translation_model, success, timed_out>>

LoaderNext ==
  \/ CaptureNext
  \/ run_start
  \/ \E h \in Hotkeys : app_start_init(h)
  \/ \E i \in InitIds : im_check(i)
  \/ \E i \in InitIds : im_submit(i)
  \/ \E i \in InitIds : load_whisper(i)
  \/ \E i \in InitIds : im_wait(i)
  \/ \E i \in InitIds : im_translation(i)
  \/ \E i \in InitIds : im_qwen(i)
  \/ \E i \in InitIds : im_set(i)
  \/ \E i \in InitIds : im_except(i)
  \/ \E i \in InitIds : im_result(i)

\* the application as TranscribeApp.__init__ leaves it: nothing is loaded;
\* llm.enabled is as the configuration file has it
LoaderInit ==
  /\ ProgramInit
  /\ fn_input = None /\ fn_results = <<>>
  /\ is_initialized = FALSE
  /\ qwen_processor = FALSE
  /\ config \in {[DefaultConfig EXCEPT !.enabled = b] : b \in BOOLEAN}
  /\ init_pc = [i \in InitIds |-> "unborn"]
  /\ load_future = [i \in InitIds |-> "none"]
  /\ whisper_model = FALSE
  /\ translation_model = FALSE
  /\ success = [i \in InitIds |-> None]
  /\ timed_out = [i \in InitIds |-> FALSE]

LoaderSpec == LoaderInit /\ [][LoaderNext]_vars

----------------------------------------------------------------------------
\* Texts.  A Python str is modelled as the sequence of its atoms: maximal runs
\* of word characters (\w+), single white-space characters and single
\* punctuation characters; the str is the concatenation of the atoms.  No two
\* word atoms are adjacent.

Range(s) == {s[i] : i \in 1..Len(s)}

Spaces == {" ", "\n"}                 \* what \s and str.split() separate on

IsSpace(a) == a \in Spaces
\* not str.isalnum(), not \w
IsPunct(a) == a \in {".", ",", ";", "!", "?", ":", "-", "'", "\""}
IsWord(a) == ~IsSpace(a) /\ ~IsPunct(a) /\ a # ""

\* str.lower() of a word atom: the atoms that have an upper-case letter
Lower(a) ==
  CASE a = "A" -> "a"
    [] a = "ASSISTANT" -> "assistant"
    [] a = "Archivo" -> "archivo"
    [] a = "Assistant" -> "assistant"
    [] a = "Como" -> "como"
    [] a = "Eh" -> "eh"
    [] a = "English" -> "english"
    [] a = "Git" -> "git"
    [] a = "GitHub" -> "github"
    [] a = "Github" -> "github"
    [] a = "Good" -> "good"
    [] a = "Guit" -> "guit"
    [] a = "Hello" -> "hello"
    [] a = "Here" -> "here"
    [] a = "Hola" -> "hola"
    [] a = "Instal" -> "instal"
    [] a = "Install" -> "install"
    [] a = "Is" -> "is"
    [] a = "JSON" -> "json"
    [] a = "Json" -> "json"
    [] a = "Main" -> "main"
    [] a = "Mundo" -> "mundo"
    [] a = "Package" -> "package"
    [] a = "Pib" -> "pib"
    [] a = "Pip" -> "pip"
    [] a = "Por" -> "por"
    [] a = "Que" -> "que"
    [] a = "README" -> "readme"
    [] a = "Readme" -> "readme"
    [] a = "Subir" -> "subir"
    [] a = "The" -> "the"
    [] a = "World" -> "world"
    [] OTHER -> a

\* s[0].upper() + s[1:] of a word atom: the atoms that begin with a lower-case
\* letter
Capital(a) ==
  CASE a = "a" -> "A"
    [] a = "archivo" -> "Archivo"
    [] a = "assistant" -> "Assistant"
    [] a = "como" -> "Como"
    [] a = "eh" -> "Eh"
    [] a = "english" -> "English"
    [] a = "git" -> "Git"
    [] a = "github" -> "Github"
    [] a = "good" -> "Good"
    [] a = "guit" -> "Guit"
    [] a = "hello" -> "Hello"
    [] a = "here" -> "Here"
    [] a = "hola" -> "Hola"
    [] a = "instal" -> "Instal"
    [] a = "install" -> "Install"
    [] a = "is" -> "Is"
    [] a = "json" -> "Json"
    [] a = "main" -> "Main"
    [] a = "mundo" -> "Mundo"
    [] a = "package" -> "Package"
    [] a = "pib" -> "Pib"
    [] a = "pip" -> "Pip"
    [] a = "por" -> "Por"
    [] a = "que" -> "Que"
    [] a = "readme" -> "Readme"
    [] a = "subir" -> "Subir"
    [] a = "the" -> "The"
    [] a = "world" -> "World"
    [] OTHER -> a

\* text.lower()
LowerText(t) == [i \in 1..Len(t) |-> Lower(t[i])]

\* len(text)
RECURSIVE Chars(_)
Chars(t) == IF t = <<>> THEN 0 ELSE Len(Head(t)) + Chars(Tail(t))

\* text.strip()
RECURSIVE LStrip(_)
LStrip(t) == IF t # <<>> /\ IsSpace(Head(t)) THEN LStrip(Tail(t)) ELSE t

RECURSIVE RStrip(_)
RStrip(t) ==
  IF t # <<>> /\ IsSpace(t[Len(t)]) THEN RStrip(SubSeq(t, 1, Len(t) - 1)) ELSE t

Strip(t) == RStrip(LStrip(t))

\* text.split(sep): the pieces between the atoms that satisfy the separator
\* test, empty pieces included
RECURSIVE Pieces(_, _, _)
Pieces(t, seps, cur) ==
  IF t = <<>> THEN <<cur>>
  ELSE IF Head(t) \in seps THEN <<cur>> \o Pieces(Tail(t), seps, <<>>)
  ELSE Pieces(Tail(t), seps, Append(cur, Head(t)))

NonEmpty(ps) == SelectSeq(ps, LAMBDA p : p # <<>>)

\* text.split(): the words, runs of white space dropped
Split(t) == NonEmpty(Pieces(t, Spaces, <<>>))

\* sep.join(parts)
RECURSIVE Join(_, _)
Join(parts, sep) ==
  IF parts = <<>> THEN <<>>
  ELSE IF Len(parts) = 1 THEN parts[1]
  ELSE parts[1] \o sep \o Join(Tail(parts), sep)

\* re.sub(r'\s+', ' ', text)
RECURSIVE CollapseSpaces(_)
CollapseSpaces(t) ==
  IF t = <<>> THEN <<>>
  ELSE IF IsSpace(Head(t))
         THEN <<" ">> \o CollapseSpaces(LStrip(t))
         ELSE <<Head(t)>> \o CollapseSpaces(Tail(t))

----------------------------------------------------------------------------
\* Technical terms (technical_terms.py)

\* TECHNICAL_CORRECTIONS, technical_terms.py:13-86: misheard term k, term v
TECHNICAL_CORRECTIONS ==
  {[k |-> <<"trinme">>, v |-> <<"README">>],
   [k |-> <<"trime">>, v |-> <<"README">>],
   [k |-> <<"ridmi">>, v |-> <<"README">>],
   [k |-> <<"redmi">>, v |-> <<"README">>],
   [k |-> <<"rid", " ", "me">>, v |-> <<"README">>],
   [k |-> <<"read", " ", "me">>, v |-> <<"README">>],
   [k |-> <<"git", " ", "jab">>, v |-> <<"GitHub">>],
   [k |-> <<"guitjab">>, v |-> <<"GitHub">>],
   [k |-> <<"guit">>, v |-> <<"git">>],
   [k |-> <<"comit">>, v |-> <<"commit">>],
   [k |-> <<"pul">>, v |-> <<"pull">>],
   [k |-> <<"puch">>, v |-> <<"push">>],
   [k |-> <<"bransh">>, v |-> <<"branch">>],
   [k |-> <<"branch">>, v |-> <<"branch">>],
   [k |-> <<"faison">>, v |-> <<"Python">>],
   [k |-> <<"paiton">>, v |-> <<"Python">>],
   [k |-> <<"piton">>, v |-> <<"Python">>],
   [k |-> <<"yasón">>, v |-> <<"JSON">>],
   [k |-> <<"yeison">>, v |-> <<"JSON">>],
   [k |-> <<"eich", " ", "ti", " ", "eme", " ", "ele">>, v |-> <<"HTML">>],
   [k |-> <<"ce", " ", "ese", " ", "ese">>, v |-> <<"CSS">>],
   [k |-> <<"api">>, v |-> <<"API">>],
   [k |-> <<"a", " ", "pi", " ", "ai">>, v |-> <<"API">>],
   [k |-> <<"pac", "-", "age">>, v |-> <<"package">>],
   [k |-> <<"packash">>, v |-> <<"package">>],
   [k |-> <<"packash", ".", "yasón">>, v |-> <<"package", ".", "json">>],
   [k |-> <<"packash", ".", "json">>, v |-> <<"package", ".", "json">>],
   [k |-> <<"noud", " ", "modules">>, v |-> <<"node_modules">>],
   [k |-> <<"nod", " ", "modules">>, v |-> <<"node_modules">>],
   [k |-> <<"requaierments">>, v |-> <<"requirements">>],
   [k |-> <<"requeriments">>, v |-> <<"requirements">>],
   [k |-> <<"requairements">>, v |-> <<"requirements">>],
   [k |-> <<"riact">>, v |-> <<"React">>],
   [k |-> <<"riac">>, v |-> <<"React">>],
   [k |-> <<"angiular">>, v |-> <<"Angular">>],
   [k |-> <<"viu">>, v |-> <<"Vue">>],
   [k |-> <<"diango">>, v |-> <<"Django">>],
   [k |-> <<"flask">>, v |-> <<"Flask">>],
   [k |-> <<"enpiem">>, v |-> <<"npm">>],
   [k |-> <<"en", " ", "pi", " ", "eme">>, v |-> <<"npm">>],
   [k |-> <<"pip">>, v |-> <<"pip">>],
   [k |-> <<"pib">>, v |-> <<"pip">>],
   [k |-> <<"instal">>, v |-> <<"install">>],
   [k |-> <<"instol">>, v |-> <<"install">>],
   [k |-> <<"escuel">>, v |-> <<"SQL">>],
   [k |-> <<"es", " ", "cu", " ", "ele">>, v |-> <<"SQL">>],
   [k |-> <<"posgrés">>, v |-> <<"PostgreSQL">>],
   [k |-> <<"postgre">>, v |-> <<"PostgreSQL">>],
   [k |-> <<"mongodivi">>, v |-> <<"MongoDB">>],
   [k |-> <<"mongo", " ", "divi">>, v |-> <<"MongoDB">>],
   [k |-> <<"dita">>, v |-> <<"data">>],
   [k |-> <<"deita">>, v |-> <<"data">>],
   [k |-> <<"sérver">>, v |-> <<"server">>],
   [k |-> <<"claud">>, v |-> <<"cloud">>],
   [k |-> <<"claund">>, v |-> <<"cloud">>],
   [k |-> <<"douker">>, v |-> <<"Docker">>],
   [k |-> <<"doker">>, v |-> <<"Docker">>]}

CorrectionKeys == {c.k : c \in TECHNICAL_CORRECTIONS}

Correction(key) == (CHOOSE c \in TECHNICAL_CORRECTIONS : c.k = key).v

\* A pattern of CONTEXTUAL_PATTERNS is a sequence of elements: "alt", one of
\* the alternatives alts (each a sequence of lower-case atoms); "sp", \s+;
\* "opt", an optional group (alternative \s+)?; "any", \w+.  All patterns
\* start and end at a word boundary, which is a boundary of atoms.
\* CONTEXTUAL_PATTERNS, technical_terms.py:89-110, in table order; Grp and Lit
\* are the items of a replacement template: the text an element matched, an
\* atom
CONTEXTUAL_PATTERNS ==
  LET Alt(alts) == [k |-> "alt", alts |-> alts]
      Word(ws) == Alt({<<w>> : w \in ws})
      Sp == [k |-> "sp", alts |-> {}]
      Opt(ws) == [k |-> "opt", alts |-> {<<w>> : w \in ws}]
      AnyWord == [k |-> "any", alts |-> {}]
      Dot == Alt({<<".">>})
      Grp(n) == [g |-> n, a |-> ""]
      Lit(a) == [g |-> 0, a |-> a]
      Misheard_README == {"trinme", "trime", "ridmi", "redmi"}
      Misheard_install == {"instal", "instol"}
  IN
    << [elems |-> <<Word({"actualizar", "update", "cambiar", "change"}), Sp, Opt({"el"}),
                    Word(Misheard_README)>>,
        repl |-> <<Grp(1), Lit(" "), Grp(3), Lit("README")>>],
       [elems |-> <<Word({"archivo", "file"}), Sp, Word(Misheard_README)>>,
        repl |-> <<Grp(1), Lit(" "), Lit("README")>>],
       [elems |-> <<Word({"hacer", "make", "create"}), Sp, Opt({"un"}),
                    Word({"comit", "commit"})>>,
        repl |-> <<Grp(1), Lit(" "), Grp(3), Lit("commit")>>],
       [elems |-> <<Word({"subir", "upload", "push"}), Sp, Opt({"a"}),
                    Alt({<<"git", " ", "jab">>, <<"guitjab">>})>>,
        repl |-> <<Grp(1), Lit(" "), Grp(3), Lit("GitHub")>>],
       [elems |-> <<Word({"nuevo", "new"}), Sp, Word({"bransh"}), Sp, Word({"en"}), Sp,
                    Alt({<<"git", " ", "jab">>})>>,
        repl |-> <<Grp(1), Lit(" "), Lit("branch"), Lit(" "), Lit("en"), Lit(" "),
                   Lit("GitHub")>>],
       [elems |-> <<Alt({<<"enpiem">>, <<"en", " ", "pi", " ", "eme">>}), Sp,
                    Word(Misheard_install)>>,
        repl |-> <<Lit("npm"), Lit(" "), Lit("install")>>],
       [elems |-> <<Word({"pib", "pip"}), Sp, Word(Misheard_install)>>,
        repl |-> <<Lit("pip"), Lit(" "), Lit("install")>>],
       [elems |-> <<Word({"pib", "pip"}), Sp, Word(Misheard_install), Sp,
                    Word({"requaierments", "requeriments", "requairements"})>>,
        repl |-> <<Lit("pip"), Lit(" "), Lit("install"), Lit(" "), Lit("requirements")>>],
       [elems |-> <<Word({"packash"}), Dot, Word({"yasón", "yeison", "json"})>>,
        repl |-> <<Lit("package"), Lit("."), Lit("json")>>],
       [elems |-> <<AnyWord, Dot, Word({"yasón", "yeison"})>>,
        repl |-> <<Grp(1), Lit("."), Lit("json")>>],
       [elems |-> <<AnyWord, Dot, Word({"pi"})>>,
        repl |-> <<Grp(1), Lit("."), Lit("py")>>],
       [elems |-> <<AnyWord, Dot, Alt({<<"yei", " ", "ese">>})>>,
        repl |-> <<Grp(1), Lit("."), Lit("js")>>],
       [elems |-> <<Word({"requaierments"}), Dot, Word({"txt"})>>,
        repl |-> <<Lit("requirements"), Lit("."), Lit("txt")>>] >>

\* the position after the run of white space that starts at atom i, 0 if none
RECURSIVE SpEnd(_, _)
SpEnd(t, i) ==
  IF i < 1 \/ i > Len(t) THEN 0
  ELSE IF ~IsSpace(t[i]) THEN 0
  ELSE IF i + 1 <= Len(t) /\ IsSpace(t[i + 1]) THEN SpEnd(t, i + 1)
  ELSE i + 1

\* the positions at which element e can end when it starts at atom i
ElemEnds(e, t, i) ==
  LET \* the position after alternative alt matched at atom i (re.IGNORECASE), or 0
      AltEnd(alt) ==
        IF i >= 1 /\ i + Len(alt) - 1 <= Len(t)
             /\ LowerText(SubSeq(t, i, i + Len(alt) - 1)) = alt
          THEN i + Len(alt)
          ELSE 0
  IN
  CASE e.k = "alt" -> {AltEnd(a) : a \in e.alts} \ {0}
    [] e.k = "sp" -> {SpEnd(t, i)} \ {0}
    [] e.k = "opt" -> {i} \cup ({SpEnd(t, AltEnd(a)) : a \in e.alts} \ {0})
    [] e.k = "any" -> IF i <= Len(t) /\ IsWord(t[i]) THEN {i + 1} ELSE {}

\* the boundaries <<i, end of element 1, ..., end of the last element>> of the
\* match of elems at atom i, <<>> when there is none; an optional group is
\* taken when the rest matches with it
RECURSIVE MatchAt(_, _, _)
MatchAt(elems, t, i) ==
  IF elems = <<>> THEN <<i>>
  ELSE LET good == {j \in ElemEnds(Head(elems), t, i) : MatchAt(Tail(elems), t, j) # <<>>}
       IN IF good = {} THEN <<>>
          ELSE <<i>> \o MatchAt(Tail(elems), t,
                                CHOOSE j \in good : \A k \in good : k <= j)

\* Match.expand(repl): a group that did not take part is the empty string
RECURSIVE Expand(_, _, _)
Expand(repl, t, b) ==
  IF repl = <<>> THEN <<>>
  ELSE (IF Head(repl).g = 0 THEN <<Head(repl).a>>
        ELSE SubSeq(t, b[Head(repl).g], b[Head(repl).g + 1] - 1))
       \o Expand(Tail(repl), t, b)

\* re.sub(pattern, replacement, text, flags=re.IGNORECASE) from atom i on:
\* the leftmost matches, none overlapping
RECURSIVE SubFrom(_, _, _)
SubFrom(p, t, i) ==
  IF i > Len(t) THEN <<>>
  ELSE LET b == MatchAt(p.elems, t, i)
       IN IF b = <<>> THEN <<t[i]>> \o SubFrom(p, t, i + 1)
          ELSE Expand(p.repl, t, b) \o SubFrom(p, t, b[Len(b)])

\* technical_terms.py:132-133
RECURSIVE ApplyPatterns(_, _)
ApplyPatterns(ps, t) ==
  IF ps = <<>> THEN t ELSE ApplyPatterns(Tail(ps), SubFrom(Head(ps), t, 1))

\* (faulty variant: the word-level lookup drops the trailing punctuation)
CorrectWord_NoSuffix(word) ==
  LET punct == IsPunct(word[Len(word)])
      clean == IF punct THEN SubSeq(word, 1, Len(word) - 1) ELSE word
  IN IF LowerText(clean) \in CorrectionKeys THEN Correction(LowerText(clean)) ELSE word

\* technical_terms.py:139-159: a last character that is not alphanumeric is
\* set aside as the suffix and put back after the corrected word
CorrectWord(word) ==
  LET punct == IsPunct(word[Len(word)])
      clean == IF punct THEN SubSeq(word, 1, Len(word) - 1) ELSE word
      suffix == IF punct THEN <<word[Len(word)]>> ELSE <<>>
  IN IF LowerText(clean) \in CorrectionKeys
       THEN Correction(LowerText(clean)) \o suffix
       ELSE word

\* re.sub(r'\s+([.,;!?])', r'\1', text)
RECURSIVE SpaceBeforePunct(_)
SpaceBeforePunct(t) ==
  IF t = <<>> THEN <<>>
  ELSE IF IsSpace(Head(t))
         THEN LET rest == LStrip(t)
              IN IF rest # <<>> /\ Head(rest) \in {".", ",", ";", "!", "?"}
                   THEN SpaceBeforePunct(rest)
                   ELSE <<Head(t)>> \o SpaceBeforePunct(Tail(t))
         ELSE <<Head(t)>> \o SpaceBeforePunct(Tail(t))

\* technical_terms.py:136-165: the word-by-word corrections and the clean-up
WordLevel(processed) ==
  LET words == Split(processed)
      corrected == [i \in 1..Len(words) |-> CorrectWord(words[i])]
  IN SpaceBeforePunct(CollapseSpaces(Join(corrected, <<" ">>)))

\* TechnicalTermsProcessor.process_text, technical_terms.py:123-170
process_text(text) ==
  IF text = <<>> THEN text
  ELSE WordLevel(ApplyPatterns(CONTEXTUAL_PATTERNS, text))

----------------------------------------------------------------------------
\* The deterministic processor (simple_text_processor.py)

\* text[0].upper() + text[1:]
CapitalFirst(t) == IF t = <<>> THEN t ELSE <<Capital(Head(t))>> \o Tail(t)

\* if text and not text[-1] in '.!?': text += '.'
EndSentence(t) ==
  IF t # <<>> /\ t[Len(t)] \notin {".", "!", "?"} THEN Append(t, ".") ELSE t

\* SimpleTextProcessor.clean_spanish_text, simple_text_processor.py:33-56
simple_clean_spanish_text(text) ==
  LET \* simple_text_processor.py:16
      spanish_fillers == {"este", "eh", "mmm", "um", "uhm", "ah", "oh", "bueno"}
  IN
  LET \* re.sub(r'^\s+|\s+$', ' ', text)
      TrimToSpace(t) ==
        LET l == IF t # <<>> /\ IsSpace(Head(t)) THEN <<" ">> \o LStrip(t) ELSE t
        IN IF l # <<>> /\ IsSpace(l[Len(l)]) /\ LStrip(l) # <<>>
             THEN Append(RStrip(l), " ")
             ELSE l
  IN
  LET lowered == LowerText(text)
      nofill == [i \in 1..Len(lowered) |->
                   IF lowered[i] \in spanish_fillers THEN " " ELSE lowered[i]]
  IN EndSentence(CapitalFirst(Strip(TrimToSpace(CollapseSpaces(nofill)))))

\* re.sub(phrase, word, text, flags=re.IGNORECASE) for the phrases 'the the',
\* 'a a' and 'is is' (simple_text_processor.py:24-26), on words that neither
\* end nor begin with the word of the phrase
RECURSIVE Undouble(_, _)
Undouble(t, w) ==
  IF Len(t) < 3 THEN t
  ELSE IF Lower(t[1]) = w /\ t[2] = " " /\ Lower(t[3]) = w
         THEN <<w>> \o Undouble(SubSeq(t, 4, Len(t)), w)
         ELSE <<Head(t)>> \o Undouble(Tail(t), w)

\* SimpleTextProcessor.enhance_translation, simple_text_processor.py:58-86
simple_enhance_translation(english) ==
  LET \* re.sub(r'([a-zA-Z])$', r'\1.', text): $ is the end or the place before a
      \* final newline; the words of the model end in a letter
      PeriodAfterLetter(t) ==
        IF t = <<>> THEN t
        ELSE IF IsWord(t[Len(t)]) THEN Append(t, ".")
        ELSE IF t[Len(t)] = "\n" /\ Len(t) > 1 /\ IsWord(t[Len(t) - 1])
               THEN SubSeq(t, 1, Len(t) - 1) \o <<".", "\n">>
        ELSE t
  IN
  LET fixed == Undouble(Undouble(Undouble(english, "the"), "a"), "is")
  IN EndSentence(CapitalFirst(Strip(PeriodAfterLetter(CapitalFirst(fixed)))))

----------------------------------------------------------------------------
\* The AI processor (qwen_processor.py).  The language model is external: its
\* decoded response is an input of the functions, or the call raises.

\* response.replace('assistant', '').replace('Assistant', ''),
\* qwen_processor.py:140 and 216, the marker being an atom of its own
StripMarker(t) == SelectSeq(t, LAMBDA a : a \notin {"assistant", "Assistant"})

\* 'assistant' in text.lower(), model_manager.py:299 and 346
HasMarker(t) == \E i \in 1..Len(t) : Lower(t[i]) = "assistant"

\* text.count(sub): the occurrences of sub that do not overlap
RECURSIVE Count(_, _)
Count(t, sub) ==
  IF sub = <<>> THEN Chars(t) + 1
  ELSE IF Len(t) < Len(sub) THEN 0
  ELSE IF SubSeq(t, 1, Len(sub)) = sub
         THEN 1 + Count(SubSeq(t, Len(sub) + 1, Len(t)), sub)
         ELSE Count(Tail(t), sub)

\* the lines of the response, stripped, the empty ones dropped
StrippedLines(t) == NonEmpty([i \in 1..Len(Pieces(t, {"\n"}, <<>>)) |->
                                LStrip(RStrip(Pieces(t, {"\n"}, <<>>)[i]))])

\* qwen_processor.py:146-150: a line is kept the first time it is seen
RECURSIVE UniqueLines(_, _)
UniqueLines(ls, seen) ==
  IF ls = <<>> THEN <<>>
  ELSE IF Head(ls) \in seen THEN UniqueLines(Tail(ls), seen)
  ELSE <<Head(ls)>> \o UniqueLines(Tail(ls), seen \cup {Head(ls)})

\* qwen_processor.py:140-152: the candidate made of the response
CleanCandidate(response) ==
  Join(UniqueLines(StrippedLines(Strip(StripMarker(response))), {}), <<" ">>)

\* qwen_processor.py:155 and 235: a candidate shorter than this is refused
MinCandidateLen == 3

\* qwen_processor.py:159: len(cleaned) > len(text) * 2
CleanMaxFactor == 2

\* qwen_processor.py:155-161: the validation of the cleaned candidate
CleanRejected(text, cleaned) ==
  \/ cleaned = <<>> \/ Chars(cleaned) < MinCandidateLen
  \/ Chars(cleaned) > Chars(text) * CleanMaxFactor

\* the result of the model call
Raised == [raised |-> TRUE, response |-> <<>>]
Response(r) == [raised |-> FALSE, response |-> r]

\* QwenProcessor.clean_spanish_text, qwen_processor.py:96-171
qwen_clean_spanish_text(text, out) ==
  IF out.raised THEN text
  ELSE IF CleanRejected(text, CleanCandidate(out.response)) THEN text
  ELSE process_text(CleanCandidate(out.response))

\* model_manager.py:299: the check on the text Qwen returned
CleanSuspicious(c) == HasMarker(c) \/ Count(c, <<"\n">>) > 2

\* model_manager.py:297-307: the Cleaning stage with Qwen loaded
qwen_cleaning(text, out) ==
  IF CleanSuspicious(qwen_clean_spanish_text(text, out))
    THEN text
    ELSE qwen_clean_spanish_text(text, out)

\* the Cleaning stage used the candidate: the call returned, the candidate
\* passed qwen_processor.py:155-161 and model_manager.py:299
CleanAccepted(text, out) ==
  /\ ~out.raised
  /\ ~CleanRejected(text, CleanCandidate(out.response))
  /\ ~CleanSuspicious(process_text(CleanCandidate(out.response)))

\* text.strip('"').strip("'")
RECURSIVE StripQuote(_, _)
StripQuote(t, q) ==
  IF t # <<>> /\ Head(t) = q THEN StripQuote(Tail(t), q)
  ELSE IF t # <<>> /\ t[Len(t)] = q THEN StripQuote(SubSeq(t, 1, Len(t) - 1), q)
  ELSE t

\* qwen_processor.py:216-232: the candidate made of the response
EnhanceCandidate(response) ==
  LET \* qwen_processor.py:225-226: the markers of a prompt line, a marker being
      \* a word of its own followed by ':' or the word 'here'
      PromptWords == {"spanish", "english", "improved", "translated", "corrected", "fixed"}
      HasPromptMarker(line) ==
        \E i \in 1..Len(line) :
          \/ Lower(line[i]) = "here"
          \/ Lower(line[i]) \in PromptWords /\ i < Len(line) /\ line[i + 1] = ":"
  IN Strip(StripQuote(StripQuote(
       Strip(Join(SelectSeq(StrippedLines(StripMarker(response)),
                            LAMBDA l : ~HasPromptMarker(l)), <<" ">>)),
       "\""), "'"))

\* set(text.lower().split())
WordSet(t) == Range(Split(LowerText(t)))

\* english[:n], for a text whose n-th character ends an atom or that is shorter
RECURSIVE Prefix(_, _)
Prefix(t, n) ==
  IF t = <<>> \/ Len(Head(t)) > n THEN <<>>
  ELSE <<Head(t)>> \o Prefix(Tail(t), n - Len(Head(t)))

\* qwen_processor.py:249: the beginning of the reference that is looked for
DuplicationPrefix == 20

\* qwen_processor.py:254: len(enhanced) > len(english) * 1.5,
\* len(enhanced) < len(english) * 0.5, in halves
EnhanceMaxHalves == 3
EnhanceMinHalves == 1

\* qwen_processor.py:263: the overlap is checked for more words than this
OverlapMinWords == 2

\* qwen_processor.py:235-267: the validation of the enhanced candidate
EnhanceRejected(english, enhanced) ==
  LET \* qwen_processor.py:240
      spanish_indicators == {"que", "por", "está", "pero", "como", "cuando", "donde",
                             "así", "también"}
      words == Split(LowerText(enhanced))
      spanish_count == Cardinality({w \in spanish_indicators : <<w>> \in Range(words)})
      \* qwen_processor.py:241-246: spanish_count / len(words) > 0.2
      SpanishContaminated == Len(words) > 0 /\ spanish_count * 5 > Len(words)
      \* qwen_processor.py:254
      LengthSuspicious ==
        \/ 2 * Chars(enhanced) > Chars(english) * EnhanceMaxHalves
        \/ 2 * Chars(enhanced) < Chars(english) * EnhanceMinHalves
      \* qwen_processor.py:263: if len(english_words) > 2
      OverlapChecked == Cardinality(WordSet(english)) > OverlapMinWords
      \* qwen_processor.py:259-267: len(common) < len(english_words) * 0.5
      Diverged ==
        /\ OverlapChecked
        /\ 2 * Cardinality(WordSet(english) \cap WordSet(enhanced))
             < Cardinality(WordSet(english))
  IN \/ enhanced = <<>> \/ Chars(enhanced) < MinCandidateLen
     \/ SpanishContaminated
     \/ Count(enhanced, Prefix(english, DuplicationPrefix)) > 1
     \/ LengthSuspicious
     \/ Diverged

\* QwenProcessor.enhance_translation, qwen_processor.py:173-277
qwen_enhance_translation(english, out) ==
  IF out.raised THEN english
  ELSE IF EnhanceRejected(english, EnhanceCandidate(out.response)) THEN english
  ELSE process_text(EnhanceCandidate(out.response))

\* model_manager.py:346-356: the checks on the text Qwen returned
EnhanceSuspicious(translated, enhanced) ==
  LET \* model_manager.py:351-356: the first three words of the translation, when it
      \* has more than two, occur more than once in the enhanced text
      PhraseRepeated ==
        LET first_words == Split(translated)
        IN /\ Len(first_words) > 2
           /\ Count(enhanced, Join(SubSeq(first_words, 1, 3), <<" ">>)) > 1
  IN
  HasMarker(enhanced) \/ PhraseRepeated

\* model_manager.py:342-359: the Enhancing stage with Qwen loaded
qwen_enhancing(translated, out) ==
  IF EnhanceSuspicious(translated, qwen_enhance_translation(translated, out))
    THEN translated
    ELSE qwen_enhance_translation(translated, out)

\* the Enhancing stage used the candidate
EnhanceAccepted(translated, out) ==
  /\ ~out.raised
  /\ ~EnhanceRejected(translated, EnhanceCandidate(out.response))
  /\ ~EnhanceSuspicious(translated, process_text(EnhanceCandidate(out.response)))

----------------------------------------------------------------------------
\* The processing pipeline: TranscribeApp.process_audio (main.py:238-289) and
\* ModelManager.process_audio / transcribe / translate (model_manager.py)

HistoryLimit == 100    \* main.py:310

RunIds == 1..Len(runs)

\* Whisper, the translation model and Qwen are external models: their outputs
\* are chosen from these sets.
RawTexts == {<<>>, <<"eh">>, <<"guit">>}

\* what Qwen may answer in the Cleaning stage, and in the Enhancing stage
CleanOutcomes == {Raised, Response(<<>>), Response(<<"Git", ".">>)}

EnhanceOutcomes == {Raised, Response(<<>>), Response(<<"Git", ".">>)}

\* technical_terms.py:219-222
process_technical_terms(t) == process_text(t)

\* the translation pipeline (model_manager.py:324-330)
translation_pipeline(t) ==
  {<<>>, IF \E i \in 1..Len(t) : Lower(t[i]) \in {"git", "guit"} THEN <<"git">> ELSE <<"eh">>}

Enter(run, stage) == Append(run.stages, stage)

Outcome(accepted) == IF accepted THEN "accepted" ELSE "refused"

SetRun(r, rec) == runs' = [runs EXCEPT ![r] = rec]

\* ModelManager.process_audio, model_manager.py:401-403: any exception becomes
\* the result ("", "", {"error": str(e)})
ErrorResult(msg) == [original |-> <<>>, translated |-> <<>>, error |-> msg,
                     llm_enhanced |-> FALSE]

\* a segment handed to a new processing thread (main.py:216-220, 227-231)
SubmitSegment ==
  /\ Len(runs) < MaxRuns
  /\ runs' = Append(runs, NewRun(<<1>>))
  /\ UNCHANGED <<fnVars, loadVars, recVars, ghostVars, pipeVars>>

\* (faulty variant: the lock is not waited for)
LockFree_Ignored(lock) == TRUE

\* main.py:239: with self.processing_lock
LockFree(lock) == lock = 0

\* Any waiting thread may get the lock: threading.Lock keeps no order among
\* the threads that wait for it.
pa_acquire(r) ==
  /\ runs[r].pc = "spawned"
  /\ LockFree(processing_lock)
  /\ processing_lock' = r
  /\ SetRun(r, [runs[r] EXCEPT !.pc = "prepare"])
  /\ UNCHANGED <<fnVars, loadVars, recVars, ghostVars, history, injected, model_lock, qwen_processor,
                 config, is_initialized, settings_pc>>

\* main.py:243-249: filter the audio and write the wav file; either may raise
pa_prepare(r) ==
  /\ runs[r].pc = "prepare"
  /\ \E ok \in BOOLEAN :
       SetRun(r, [runs[r] EXCEPT !.pc = IF ok THEN "tr_enter" ELSE "pa_except"])
  /\ UNCHANGED <<fnVars, loadVars, recVars, ghostVars, pipeVars>>

\* ModelManager.transcribe, model_manager.py:157-160
tr_enter(r) ==
  /\ runs[r].pc = "tr_enter"
  /\ IF ~is_initialized
       THEN /\ SetRun(r, [runs[r] EXCEPT !.pc = "pa_result",
                            !.result = ErrorResult("Models not initialized")])
            /\ UNCHANGED model_lock
       ELSE /\ model_lock = 0
            /\ model_lock' = r
            /\ SetRun(r, [runs[r] EXCEPT !.pc = "tr_whisper",
                            !.stages = Enter(runs[r], "Transcribing")])
  /\ UNCHANGED <<fnVars, loadVars, recVars, ghostVars, processing_lock, history, injected,
                 qwen_processor, config, is_initialized, settings_pc>>

\* model_manager.py:165-284: Whisper transcribes the file, or the soundfile
\* fallback decodes it and returns its text at once (line 275), or it raises
tr_whisper(r) ==
  /\ runs[r].pc = "tr_whisper"
  /\ \E outcome \in {"direct", "fallback", "raise"} : \E t \in RawTexts :
       CASE outcome = "direct" ->
              /\ SetRun(r, [runs[r] EXCEPT !.pc = "tr_correct", !.raw = t, !.text = t])
              /\ UNCHANGED model_lock
         [] outcome = "fallback" ->
              /\ SetRun(r, [runs[r] EXCEPT !.pc = "mm_check", !.raw = t, !.text = t,
                              !.confidence = 8])
              /\ model_lock' = 0
         [] outcome = "raise" ->
              /\ t = <<>>
              /\ SetRun(r, [runs[r] EXCEPT !.pc = "pa_result",
                              !.result = ErrorResult("transcription failed")])
              /\ model_lock' = 0
  /\ UNCHANGED <<fnVars, loadVars, recVars, ghostVars, processing_lock, history, injected,
                 qwen_processor, config, is_initialized, settings_pc>>

\* model_manager.py:286-289
tr_correct(r) ==
  /\ runs[r].pc = "tr_correct"
  /\ SetRun(r, [runs[r] EXCEPT
         !.pc = "cl_read1",
         !.text = IF config.fix_technical_terms THEN process_technical_terms(@) ELSE @,
         !.stages = IF config.fix_technical_terms THEN Enter(runs[r], "Correcting") ELSE @])
  /\ UNCHANGED <<fnVars, loadVars, recVars, ghostVars, pipeVars>>

\* model_manager.py:296, first operand: if self.qwen_processor
cl_read1(r) ==
  /\ runs[r].pc = "cl_read1"
  /\ SetRun(r, [runs[r] EXCEPT !.pc = IF qwen_processor THEN "cl_read2" ELSE "cl_simple",
                  !.seen = @ \cup {qwen_processor},
                  !.corrected = runs[r].text,
                  !.stages = Enter(runs[r], "Cleaning")])
  /\ UNCHANGED <<fnVars, loadVars, recVars, ghostVars, pipeVars>>

\* model_manager.py:296, second operand: self.qwen_processor.is_initialized;
\* on None this is an AttributeError, handled at lines 308-310
cl_read2(r) ==
  /\ runs[r].pc = "cl_read2"
  /\ IF qwen_processor
       THEN /\ SetRun(r, [runs[r] EXCEPT !.pc = "cl_call", !.seen = @ \cup {TRUE}])
            /\ UNCHANGED model_lock
       ELSE /\ SetRun(r, [runs[r] EXCEPT !.pc = "mm_check", !.confidence = 5,
                            !.seen = @ \cup {FALSE}])
            /\ model_lock' = 0
  /\ UNCHANGED <<fnVars, loadVars, recVars, ghostVars, processing_lock, history, injected,
                 qwen_processor, config, is_initialized, settings_pc>>

\* model_manager.py:297-307: self.qwen_processor.clean_spanish_text(...), the
\* check of its output, return cleaned_text, 1.0
cl_call(r) ==
  /\ runs[r].pc = "cl_call"
  /\ IF qwen_processor
       THEN \E out \in CleanOutcomes :
              SetRun(r, [runs[r] EXCEPT !.pc = "mm_check", !.confidence = 10,
                           !.text = qwen_cleaning(@, out),
                           !.clean_ai = Outcome(CleanAccepted(runs[r].text, out)),
                           !.seen = @ \cup {TRUE}])
       ELSE SetRun(r, [runs[r] EXCEPT !.pc = "mm_check", !.confidence = 5,
                         !.seen = @ \cup {FALSE}])
  /\ model_lock' = 0
  /\ UNCHANGED <<fnVars, loadVars, recVars, ghostVars, processing_lock, history, injected,
                 qwen_processor, config, is_initialized, settings_pc>>

\* model_manager.py:304-307: the simple processor
cl_simple(r) ==
  /\ runs[r].pc = "cl_simple"
  /\ SetRun(r, [runs[r] EXCEPT !.pc = "mm_check", !.confidence = 10,
                  !.text = simple_clean_spanish_text(@)])
  /\ model_lock' = 0
  /\ UNCHANGED <<fnVars, loadVars, recVars, ghostVars, processing_lock, history, injected,
                 qwen_processor, config, is_initialized, settings_pc>>

\* (faulty variant: empty text is not checked for)
NoSpeech_Ignored(text) == FALSE

\* ModelManager.process_audio, model_manager.py:382-383
NoSpeech(text) == text = <<>>

mm_check(r) ==
  /\ runs[r].pc = "mm_check"
  /\ SetRun(r, IF NoSpeech(runs[r].text)
                 THEN [runs[r] EXCEPT !.pc = "pa_result",
                         !.transcribed = Some(runs[r].text),
                         !.result = ErrorResult("No speech detected")]
                 ELSE [runs[r] EXCEPT !.pc = "tl_enter",
                         !.transcribed = Some(runs[r].text)])
  /\ UNCHANGED <<fnVars, loadVars, recVars, ghostVars, pipeVars>>

\* ModelManager.translate, model_manager.py:317-320
tl_enter(r) ==
  /\ runs[r].pc = "tl_enter"
  /\ IF ~is_initialized
       THEN /\ SetRun(r, [runs[r] EXCEPT !.pc = "pa_result",
                            !.result = ErrorResult("Models not initialized")])
            /\ UNCHANGED model_lock
       ELSE /\ model_lock = 0
            /\ model_lock' = r
            /\ SetRun(r, [runs[r] EXCEPT !.pc = "tl_call",
                            !.stages = Enter(runs[r], "Translating")])
  /\ UNCHANGED <<fnVars, loadVars, recVars, ghostVars, processing_lock, history, injected,
                 qwen_processor, config, is_initialized, settings_pc>>

\* (faulty variant: a failed translation passes the Spanish text on)
OnTranslateError_Fallback(run) ==
  [run EXCEPT !.pc = "pa_result",
              !.result = [original |-> run.text, translated |-> run.text,
                          error |-> "", llm_enhanced |-> FALSE]]

\* model_manager.py:374-376: translate logs and re-raises; process_audio,
\* lines 401-403, turns the exception into the error result
OnTranslateError(run) ==
  [run EXCEPT !.pc = "pa_result", !.result = ErrorResult("translation failed")]

\* model_manager.py:324-339 and 369-376: the translation model translates or
\* raises; the enhancement is attempted when enhance_translation is set
tl_call(r) ==
  /\ runs[r].pc = "tl_call"
  /\ \E ok \in BOOLEAN :
       IF ok
         THEN \E en \in translation_pipeline(runs[r].text) :
                IF config.enhance_translation
                  THEN /\ SetRun(r, [runs[r] EXCEPT !.pc = "en_read1", !.translated = en,
                                       !.raw_translation = en])
                       /\ UNCHANGED model_lock
                  ELSE /\ SetRun(r, [runs[r] EXCEPT !.pc = "mm_meta1", !.translated = en,
                                       !.raw_translation = en])
                       /\ model_lock' = 0
         ELSE /\ SetRun(r, [OnTranslateError(runs[r]) EXCEPT !.tl_raised = TRUE])
              /\ model_lock' = 0
  /\ UNCHANGED <<fnVars, loadVars, recVars, ghostVars, processing_lock, history, injected,
                 qwen_processor, config, is_initialized, settings_pc>>

\* model_manager.py:341, first operand: if self.qwen_processor
en_read1(r) ==
  /\ runs[r].pc = "en_read1"
  /\ SetRun(r, [runs[r] EXCEPT !.pc = IF qwen_processor THEN "en_read2" ELSE "en_simple",
                  !.seen = @ \cup {qwen_processor},
                  !.stages = Enter(runs[r], "Enhancing")])
  /\ UNCHANGED <<fnVars, loadVars, recVars, ghostVars, pipeVars>>

\* model_manager.py:341, second operand; an AttributeError is handled at
\* lines 366-368: return translated_text
en_read2(r) ==
  /\ runs[r].pc = "en_read2"
  /\ IF qwen_processor
       THEN /\ SetRun(r, [runs[r] EXCEPT !.pc = "en_call", !.seen = @ \cup {TRUE}])
            /\ UNCHANGED model_lock
       ELSE /\ SetRun(r, [runs[r] EXCEPT !.pc = "mm_meta1", !.seen = @ \cup {FALSE}])
            /\ model_lock' = 0
  /\ UNCHANGED <<fnVars, loadVars, recVars, ghostVars, processing_lock, history, injected,
                 qwen_processor, config, is_initialized, settings_pc>>

\* model_manager.py:342-359: self.qwen_processor.enhance_translation(...)
en_call(r) ==
  /\ runs[r].pc = "en_call"
  /\ IF qwen_processor
       THEN \E out \in EnhanceOutcomes :
              SetRun(r, [runs[r] EXCEPT !.pc = "mm_meta1",
                           !.translated = qwen_enhancing(@, out),
                           !.enhance_ai =
                              Outcome(EnhanceAccepted(runs[r].translated, out)),
                           !.seen = @ \cup {TRUE}])
       ELSE SetRun(r, [runs[r] EXCEPT !.pc = "mm_meta1", !.seen = @ \cup {FALSE}])
  /\ model_lock' = 0
  /\ UNCHANGED <<fnVars, loadVars, recVars, ghostVars, processing_lock, history, injected,
                 qwen_processor, config, is_initialized, settings_pc>>

\* model_manager.py:360-365: the simple processor
en_simple(r) ==
  /\ runs[r].pc = "en_simple"
  /\ SetRun(r, [runs[r] EXCEPT !.pc = "mm_meta1",
                  !.translated = simple_enhance_translation(@)])
  /\ model_lock' = 0
  /\ UNCHANGED <<fnVars, loadVars, recVars, ghostVars, processing_lock, history, injected,
                 qwen_processor, config, is_initialized, settings_pc>>

\* ModelManager.process_audio, model_manager.py:388-399; line 394, first
\* operand of `self.qwen_processor and self.qwen_processor.is_initialized`
Result(run, enhanced) ==
  [original |-> run.text, translated |-> run.translated, error |-> "",
   llm_enhanced |-> enhanced]

mm_meta1(r) ==
  /\ runs[r].pc = "mm_meta1"
  /\ SetRun(r, IF qwen_processor
                 THEN [runs[r] EXCEPT !.pc = "mm_meta2", !.seen = @ \cup {TRUE}]
                 ELSE [runs[r] EXCEPT !.pc = "pa_result", !.seen = @ \cup {FALSE},
                         !.result = Result(runs[r], FALSE)])
  /\ UNCHANGED <<fnVars, loadVars, recVars, ghostVars, pipeVars>>

\* line 394, second operand; an AttributeError is handled at lines 401-403
mm_meta2(r) ==
  /\ runs[r].pc = "mm_meta2"
  /\ SetRun(r, IF qwen_processor
                 THEN [runs[r] EXCEPT !.pc = "pa_result", !.seen = @ \cup {TRUE},
                         !.result = Result(runs[r], TRUE)]
                 ELSE [runs[r] EXCEPT !.pc = "pa_result", !.seen = @ \cup {FALSE},
                         !.result = ErrorResult("AttributeError")])
  /\ UNCHANGED <<fnVars, loadVars, recVars, ghostVars, pipeVars>>

\* main.py:252-280: the result of model_manager.process_audio is injected and
\* saved to the history, or 'No speech detected' is shown
Delivered(result) == result.translated # <<>>

pa_result(r) ==
  /\ runs[r].pc = "pa_result"
  /\ IF Delivered(runs[r].result)
       THEN /\ injected' = Append(injected, <<r, runs[r].result.translated>>)
            /\ history' = Last(Append(history, [run |-> r,
                                 original |-> runs[r].result.original,
                                 translated |-> runs[r].result.translated,
                                 llm_enhanced |-> runs[r].result.llm_enhanced]),
                               HistoryLimit)
            /\ SetRun(r, [runs[r] EXCEPT !.pc = "pa_finally", !.status = "success"])
       ELSE /\ UNCHANGED <<injected, history>>
            /\ SetRun(r, [runs[r] EXCEPT !.pc = "pa_finally",
                            !.status = "No speech detected"])
  /\ UNCHANGED <<fnVars, loadVars, recVars, ghostVars, processing_lock, model_lock, qwen_processor,
                 config, is_initialized, settings_pc>>

\* main.py:282-284
pa_except(r) ==
  /\ runs[r].pc = "pa_except"
  /\ SetRun(r, [runs[r] EXCEPT !.pc = "pa_finally", !.status = "Processing failed"])
  /\ UNCHANGED <<fnVars, loadVars, recVars, ghostVars, pipeVars>>

\* (faulty variant: the lock is kept when the block is left)
Release_Kept(r) == r

\* the end of `with self.processing_lock` (main.py:239): the lock is released
\* however the block is left
Release(r) == 0

\* main.py:286-289 and the end of `with self.processing_lock`; the thread ends
\* and its local variables with it (of the history fields, transcribed is kept)
pa_finally(r) ==
  /\ runs[r].pc = "pa_finally"
  /\ processing_lock' = Release(r)
  /\ SetRun(r, [NewRun(runs[r].audio) EXCEPT !.pc = "done", !.status = runs[r].status,
                  !.transcribed = runs[r].transcribed])
  /\ UNCHANGED <<fnVars, loadVars, recVars, ghostVars, history, injected, model_lock, qwen_processor,
                 config, is_initialized, settings_pc>>

----------------------------------------------------------------------------
\* SettingsWindow saving a configuration: on_settings_saved (main.py:329-331)
\* and TranscribeApp.apply_config_changes (main.py:336-373)

\* main.py:330 and 347-349: the new configuration is installed
settings_save ==
  /\ settings_pc = "idle"
  /\ \E en \in BOOLEAN, enh \in BOOLEAN :
       config' = [config EXCEPT !.enabled = en, !.enhance_translation = enh]
  /\ settings_pc' = "swap"
  /\ UNCHANGED <<fnVars, loadVars, recVars, ghostVars, runs, processing_lock, history, injected,
                 model_lock, qwen_processor, is_initialized>>

\* main.py:352-368: a disabled LLM releases the Qwen processor, with no lock
\* held; nothing is loaded when it is enabled again
settings_swap ==
  /\ settings_pc = "swap"
  /\ qwen_processor' = IF ~config.enabled /\ qwen_processor THEN FALSE ELSE qwen_processor
  /\ settings_pc' = "idle"
  /\ UNCHANGED <<fnVars, loadVars, recVars, ghostVars, runs, processing_lock, history, injected,
                 model_lock, config, is_initialized>>

RunStep(r) ==
  \/ pa_acquire(r)
  \/ pa_prepare(r)
  \/ tr_enter(r)
  \/ tr_whisper(r)
  \/ tr_correct(r)
  \/ cl_read1(r)
  \/ cl_read2(r)
  \/ cl_call(r)
  \/ cl_simple(r)
  \/ mm_check(r)
  \/ tl_enter(r)
  \/ tl_call(r)
  \/ en_read1(r)
  \/ en_read2(r)
  \/ en_call(r)
  \/ en_simple(r)
  \/ mm_meta1(r)
  \/ mm_meta2(r)
  \/ pa_result(r)
  \/ pa_except(r)
  \/ pa_finally(r)

PipelineNext ==
  \/ SubmitSegment
  \/ \E r \in RunIds : RunStep(r)
  \/ settings_save
  \/ settings_swap

\* Qwen could be loaded or not; quality.fix_technical_terms is as the
\* configuration file has it
PipelineInit ==
  /\ ProgramInit
  /\ ModelsLoaded
  /\ fn_input = None /\ fn_results = <<>>
  /\ qwen_processor \in BOOLEAN
  /\ config \in {[DefaultConfig EXCEPT !.fix_technical_terms = b] : b \in BOOLEAN}

PipelineSpec == PipelineInit /\ [][PipelineNext]_vars

\* the steps of a processing thread that compute a text; each is enabled
\* exactly when the thread stands at its label
TextStages == {"tr_correct", "cl_call", "cl_simple", "tl_call", "en_call", "en_simple"}

TextStep(r) ==
  \/ tr_correct(r)
  \/ cl_call(r)
  \/ cl_simple(r)
  \/ tl_call(r)
  \/ en_call(r)
  \/ en_simple(r)

\* every processing thread that can take a step takes one in the end: the
\* threads are scheduled, and the calls of the models, of the text injector
\* and of the file system return.  For a text stage the weak-fairness
\* condition is written out with its enabling condition, the label.
PipelineFairSpec ==
  /\ PipelineSpec
  /\ \A r \in 1..MaxRuns :
       /\ WF_vars(r \in RunIds /\ runs[r].pc \notin TextStages /\ RunStep(r))
       /\ \/ []<>(~(r \in RunIds /\ runs[r].pc \in TextStages))
          \/ []<><<r \in RunIds /\ TextStep(r)>>_vars

----------------------------------------------------------------------------
\* Captures handing their segments to processing threads.  Here the body of
\* TranscribeApp.process_audio inside `with self.processing_lock` is one step.

\* main.py:240-289: the run ends with one of the three statuses; a delivered
\* text is injected and saved to the history; the lock is released
pa_body(r) ==
  /\ runs[r].pc = "prepare"
  /\ processing_lock' = Release(r)
  /\ \E st \in {"success", "No speech detected", "Processing failed"} :
       /\ SetRun(r, [NewRun(runs[r].audio) EXCEPT !.pc = "done", !.status = st])
       /\ IF st = "success"
            THEN \E t \in RawTexts \ {<<>>} :
                   /\ injected' = Append(injected, <<r, t>>)
                   /\ history' = Last(Append(history, [run |-> r, original |-> t,
                                        translated |-> t,
                                        llm_enhanced |-> qwen_processor]),
                                      HistoryLimit)
            ELSE UNCHANGED <<injected, history>>
  /\ UNCHANGED <<fnVars, loadVars, recVars, ghostVars, model_lock, qwen_processor, config,
                 is_initialized, settings_pc>>

HandoffNext ==
  \/ CaptureNext
  \/ \E r \in RunIds : pa_acquire(r)
  \/ \E r \in RunIds : pa_body(r)

HandoffSpec == CaptureInit /\ [][HandoffNext]_vars

----------------------------------------------------------------------------
\* The whole program: captures feed the pipeline
Next ==
  \/ CaptureNext
  \/ \E r \in RunIds : RunStep(r)
  \/ settings_save
  \/ settings_swap

Spec == CaptureInit /\ [][Next]_vars

----------------------------------------------------------------------------
\* The two AI stages applied on their own to a reference text and to what the
\* call of Qwen gave

MaxRefWords == 3       \* words of a reference text
MaxRespWords == 3      \* words of a response of Qwen

\* the texts of at most n words of ws, one space between two words
RECURSIVE Phrases(_, _)
Phrases(ws, n) ==
  IF n = 0 THEN {<<>>}
  ELSE Phrases(ws, n - 1) \cup {<<w>> : w \in ws}
       \cup {p \o <<" ", w>> : p \in Phrases(ws, n - 1) \ {<<>>}, w \in ws}

\* a reference of 20 characters, answers of 25 and 55 characters
Reference20 == <<"hello", " ", "the", " ", "good", " ", "world">>
Response25 == Reference20 \o <<" ", "main">>
Response55 == Response25 \o <<" ", "package", " ", "archivo", " ", "install", " ", "mundo">>

\* the reference texts: short phrases, the reference of 20 characters, 'hola'
References ==
  Phrases({"hello", "world", "good"}, MaxRefWords) \cup {Reference20, <<"hola">>}

\* what Qwen can answer: short phrases with and without the role marker, the
\* answers of 25, 55 and 5 characters, 'assistant: hello'
Responses ==
  Phrases({"hello", "world", "git", "assistant", "ASSISTANT"}, MaxRespWords)
    \cup {Response25, Response55, <<"hello">>, <<"assistant", ":", " ", "hello">>}

ValidatorInit ==
  /\ ProgramInit
  /\ ModelsLoaded
  /\ config = DefaultConfig
  /\ qwen_processor = TRUE
  /\ fn_input \in [stage : {"Cleaning", "Enhancing"}, reference : References,
                   out : {Raised} \cup {Response(r) : r \in Responses}]
  /\ fn_results = <<>>

\* model_manager.py:297-307
clean_stage ==
  /\ fn_input.stage = "Cleaning"
  /\ fn_results = <<>>
  /\ fn_results' = <<qwen_cleaning(fn_input.reference, fn_input.out)>>
  /\ UNCHANGED <<recVars, ghostVars, pipeVars, runs, loadVars, fn_input>>

\* model_manager.py:342-359
enhance_stage ==
  /\ fn_input.stage = "Enhancing"
  /\ fn_results = <<>>
  /\ fn_results' = <<qwen_enhancing(fn_input.reference, fn_input.out)>>
  /\ UNCHANGED <<recVars, ghostVars, pipeVars, runs, loadVars, fn_input>>

ValidatorNext == clean_stage \/ enhance_stage

ValidatorSpec == ValidatorInit /\ [][ValidatorNext]_vars

----------------------------------------------------------------------------
\* The technical-term corrector applied on its own, once and again to its
\* own output

MaxAtoms == 4          \* atoms of an input text
MaxPasses == 2         \* applications of process_text

\* quick_test.py:15 and 19, and inputs on which the order of the two passes
\* and the letter case show
ArchivoPackash == <<"archivo", " ", "packash", ".", "yasón">>
EjecutaPib == <<"ejecuta", " ", "pib", " ", "instal", " ", "requaierments", ".", "txt">>
SubirGuitJab == <<"subir", " ", "guit", " ", "jab">>
SubirGuitjab == <<"Subir", " ", "guitjab">>

CorrectorInputs ==
  LET \* the texts of at most MaxAtoms atoms, no two word atoms adjacent
      BoundedTexts ==
        LET CorrectorAtoms == {"main", "pi", "guit", "Guit", ".", ",", " "}
            WellFormed(t) == \A i \in 1..(Len(t) - 1) : ~(IsWord(t[i]) /\ IsWord(t[i + 1]))
        IN {t \in UNION {[1..n -> CorrectorAtoms] : n \in 0..MaxAtoms} : WellFormed(t)}
  IN
  BoundedTexts \cup {ArchivoPackash, EjecutaPib, SubirGuitJab, SubirGuitjab}

CorrectorInit ==
  /\ ProgramInit
  /\ ModelsLoaded
  /\ config = DefaultConfig
  /\ qwen_processor = FALSE
  /\ fn_input \in CorrectorInputs
  /\ fn_results = <<>>

\* process_technical_terms(text), then process_technical_terms of the result
correct_text ==
  /\ Len(fn_results) < MaxPasses
  /\ fn_results' = Append(fn_results,
                          process_text(IF fn_results = <<>> THEN fn_input
                                       ELSE fn_results[Len(fn_results)]))
  /\ UNCHANGED <<recVars, ghostVars, pipeVars, runs, loadVars, fn_input>>

CorrectorNext == correct_text

CorrectorSpec == CorrectorInit /\ [][CorrectorNext]_vars

----------------------------------------------------------------------------
\* Properties


\* a run is inside `with self.processing_lock` (main.py:239-289)
InChain(r) == runs[r].pc \notin {"spawned", "done"}

\* C1: two pipeline runs never overlap: while one run is anywhere between
\* acquiring the processing lock and Done/Error, no other run has entered its
\* chain (so none has begun Transcribing), also between two model calls.
C1_RunsSequential ==
  \A r1 \in RunIds : \A r2 \in RunIds :
    (r1 # r2 /\ InChain(r1)) =>
      /\ ~InChain(r2)
      /\ (runs[r2].pc = "spawned" => runs[r2].stages = <<>>)

\* a second run waits while the first is between its two model calls
C1_Witness ==
  \E r1 \in RunIds : \E r2 \in RunIds :
    /\ runs[r1].pc = "mm_check" /\ model_lock = 0 /\ processing_lock = r1
    /\ runs[r2].pc = "spawned"

\* C2 (as claimed): within one run every read of the enhancement handle sees
\* the same value, because a configuration change cannot take effect while a
\* run is in flight.
C2_SameHandle ==
  \A r \in RunIds : Cardinality(runs[r].seen) <= 1

\* C3: the silence gate.  The capture loop goes to its stop-and-emit exactly
\* when the timer it reads has reached silence_duration; no loop invokes the
\* completion callback more than once or with an empty segment; and a loop
\* whose gate fired while no other thread touched the recorder has invoked it
\* exactly once and left the recorder Idle.
C3_GateStep ==
  \A l \in LoopIds :
    (pc[l] = "elapsed" /\ pc'[l] # "elapsed" /\ silence_start_time # NoTime) =>
      (pc'[l] = "sr_check" <=> silence_start_time >= SilenceDuration)

C3_Once ==
  \A l \in LoopIds :
    /\ Len(completeCalls[l]) <= 1
    /\ \A i \in 1..Len(completeCalls[l]) : completeCalls[l][i] # <<>>
    /\ (gateFired[l] /\ ~disturbed[l] /\ pc[l] = "close") =>
         Len(completeCalls[l]) = 1
    /\ (gateFired[l] /\ ~disturbed[l] /\ pc[l] = "close") => ~is_recording

C3_AutoStopOnce == []C3_Once /\ [][C3_GateStep]_vars

C3_Witness ==
  \E l \in LoopIds :
    /\ gateFired[l] /\ ~disturbed[l] /\ pc[l] = "close"
    /\ Len(completeCalls[l]) = 1
    /\ ~is_recording

\* C4: the ring buffer never holds more than its capacity and always equals
\* the most recent samples appended since it was last cleared, in arrival order.
C4_RingBuffer ==
  /\ Len(audio_buffer) <= BufferCap
  /\ audio_buffer = Last(recent, BufferCap)

C4_Witness ==
  /\ Len(recent) > BufferCap
  /\ Len(audio_buffer) = BufferCap

\* C5: a start_recording that finds the recorder capturing returns False in
\* that step and leaves the flag, the buffer, the timer and the capture thread
\* as they are; no thread is created.
C5_Step ==
  \A h \in Hotkeys :
    (pc[h] = "rs_check" /\ is_recording /\ pc'[h] # "rs_check") =>
      /\ pc'[h] = "as_fail"
      /\ is_recording'
      /\ audio_buffer' = audio_buffer
      /\ silence_start_time' = silence_start_time
      /\ recording_thread' = recording_thread
      /\ \A l \in LoopIds : pc'[l] = pc[l]

C5_AlreadyCapturing == [][C5_Step]_vars

C5_Witness ==
  \E h \in Hotkeys :
    /\ pc[h] = "as_fail"
    /\ is_recording
    /\ audio_buffer # <<>>
    /\ recording_thread # NoThread

\* C6: stop_recording on a capturing recorder makes it Idle and returns None
\* when the buffer is empty, otherwise exactly the buffered samples; no empty
\* segment is ever returned or handed to the pipeline.
C6_Step ==
  \A t \in Threads :
    /\ (pc[t] = "sr_set" /\ pc'[t] # "sr_set") => ~is_recording'
    /\ (pc[t] = "sr_collect" /\ pc'[t] # "sr_collect") =>
         ret'[t] = (IF audio_buffer = <<>> THEN None ELSE Some(audio_buffer))

C6_NoEmptySegment ==
  /\ \A t \in Threads : ret[t] # None => ret[t][1] # <<>>
  /\ \A r \in RunIds : runs[r].audio # <<>>

C7_NoStaleSamples ==
  \A t \in Threads :
    ret[t] # None => \A i \in 1..Len(ret[t][1]) : ret[t][1][i] > stopBase[t]

\* C8: stop_recording never blocks.  Its three statements are straight-line
\* code, so it returns if each of them can always be executed: in particular
\* the wait for the capture thread is skipped on the capture thread itself
\* and ends with the timeout on any other thread.
C8_StopReturns ==
  \A t \in Threads :
    pc[t] \in {"sr_check", "sr_set", "sr_collect"} => ENABLED StopStep(t)

C8_Witness ==
  \E l \in LoopIds :
    /\ pc[l] = "sr_collect"
    /\ recording_thread = l
    /\ \E h \in Hotkeys : pc[h] = "sr_collect" /\ MustJoin(h)

\* C9: when the stream cannot be opened or the loop raises, the error
\* callback is invoked once; and when that loop is still the recorder's
\* latest thread and no toggle is running, the recorder is Idle and the
\* application flag is reset, so that the guards of a later start pass.
HotkeysQuiet == \A h \in Hotkeys : pc[h] \in {"idle", "done"}

C9_ErrorResets ==
  \A l \in LoopIds :
    /\ errorCalls[l] <= 1
    /\ (pc[l] = "done" /\ errorCalls[l] = 1 /\ recording_thread = l /\ HotkeysQuiet) =>
         (~is_recording /\ ~app_is_recording)

C9_Witness ==
  \E l \in LoopIds :
    /\ pc[l] = "done" /\ errorCalls[l] = 1 /\ recording_thread = l /\ HotkeysQuiet
    /\ ~is_recording /\ ~app_is_recording
    /\ \E h \in Hotkeys : pc[h] = "idle"

\* C10: a run whose transcription returned empty text gets the result
\* 'No speech detected' with no translated text, never enters Translating or
\* Enhancing, and nothing of it is injected or saved to the history.
C10_NoSpeech ==
  \A r \in RunIds :
    runs[r].transcribed = Some(<<>>) =>
      /\ runs[r].pc \in {"pa_result", "pa_finally", "done"}
      /\ runs[r].pc # "done" =>
           /\ runs[r].result.error = "No speech detected"
           /\ runs[r].result.translated = <<>>
           /\ "Translating" \notin Range(runs[r].stages)
           /\ "Enhancing" \notin Range(runs[r].stages)
      /\ runs[r].pc # "pa_result" => runs[r].status = "No speech detected"
      /\ \A i \in 1..Len(injected) : injected[i][1] # r
      /\ \A i \in 1..Len(history) : history[i].run # r

C10_Witness ==
  \E r \in RunIds :
    /\ runs[r].pc = "pa_finally"
    /\ runs[r].raw = <<"eh">>
    /\ runs[r].transcribed = Some(<<>>)
    /\ "Cleaning" \in Range(runs[r].stages)
    /\ runs[r].status = "No speech detected"

----------------------------------------------------------------------------
\* C11: an exception of the translation model is fatal to the run.  The run
\* goes straight to its end with an error result: no translated text, no
\* Enhancing stage, nothing injected or saved for it, the model lock released
\* at once and the processing lock released by the step that ends the run.
C11_Fatal ==
  \A r \in RunIds :
    runs[r].tl_raised =>
      /\ runs[r].pc \in {"pa_result", "pa_finally"}
      /\ runs[r].result.error # ""
      /\ runs[r].result.translated = <<>>
      /\ runs[r].status # "success"
      /\ "Enhancing" \notin Range(runs[r].stages)
      /\ \A i \in 1..Len(injected) : injected[i][1] # r
      /\ \A i \in 1..Len(history) : history[i].run # r
      /\ model_lock # r

C11_Step ==
  \A r \in RunIds :
    runs[r].tl_raised /\ runs'[r].pc = "done" => processing_lock' = 0

C11_TranslationFatal == []C11_Fatal /\ [][C11_Step]_vars

C11_Witness ==
  \E r \in RunIds :
    /\ runs[r].tl_raised
    /\ runs[r].pc = "pa_finally"
    /\ Range(runs[r].stages) = {"Transcribing", "Correcting", "Cleaning", "Translating"}

----------------------------------------------------------------------------
\* C12: in the Cleaning stage with Qwen loaded, when the candidate is not
\* accepted (the call raised or a validation refused it) the text the stage
\* gives is the deterministic cleaner's output on the corrected text.
C12_CleanFallback ==
  \A r \in RunIds :
    runs[r].clean_ai = "refused"
    => runs[r].text = simple_clean_spanish_text(runs[r].corrected)

----------------------------------------------------------------------------
\* C13: in the Enhancing stage with Qwen loaded, when the candidate is not
\* accepted (the call raised or a validation refused it) the translated text
\* of the run is the deterministic enhancer's output on the raw translation.
C13_EnhanceFallback ==
  \A r \in RunIds :
    runs[r].enhance_ai = "refused"
    => runs[r].translated = simple_enhance_translation(runs[r].raw_translation)

----------------------------------------------------------------------------
\* C14: the result of a run that delivers a translation reports llm_enhanced
\* only if a candidate of Qwen was accepted and used in that run, in the
\* Cleaning or the Enhancing stage.
C14_EnhancedMeansUsed ==
  \A r \in RunIds :
    runs[r].result.llm_enhanced /\ Delivered(runs[r].result) =>
      runs[r].clean_ai = "accepted" \/ runs[r].enhance_ai = "accepted"

----------------------------------------------------------------------------
\* C15: an answer of Qwen that contains the role marker 'assistant', in any
\* letter case, is rejected in the Cleaning and in the Enhancing stage: the
\* stage gives the reference text back.
C15_MarkerRejected ==
  /\ fn_results # <<>>
  /\ ~fn_input.out.raised
  /\ HasMarker(fn_input.out.response)
  => fn_results[1] = fn_input.reference

\* the candidate a stage validates: what is left of the answer of Qwen after
\* qwen_processor.py:140-152 (Cleaning) or 216-232 (Enhancing)
StageCandidate ==
  IF fn_input.stage = "Cleaning"
    THEN CleanCandidate(fn_input.out.response)
    ELSE EnhanceCandidate(fn_input.out.response)

----------------------------------------------------------------------------
\* C16: in both AI stages a candidate longer than twice the reference is
\* rejected, and so is a candidate shorter than half the reference (the
\* truncation limit of qwen_processor.py:254); for the reference of 20
\* characters the answer of 25 characters is accepted and the answer of 55
\* characters is rejected.
C16_LengthBand ==
  fn_results # <<>> /\ ~fn_input.out.raised =>
    /\ Chars(StageCandidate) > CleanMaxFactor * Chars(fn_input.reference)
         => fn_results[1] = fn_input.reference
    /\ 2 * Chars(StageCandidate) < EnhanceMinHalves * Chars(fn_input.reference)
         => fn_results[1] = fn_input.reference
    /\ fn_input.reference = Reference20 /\ fn_input.out.response = Response25
         => fn_results[1] = Response25
    /\ fn_input.reference = Reference20 /\ fn_input.out.response = Response55
         => fn_results[1] = Reference20

----------------------------------------------------------------------------
\* C17: in the Enhancing stage, for a reference of any number of words, a
\* candidate in which fewer than half of the distinct words of the reference
\* recur (compared in lower case) is rejected: the stage gives the raw
\* translation back.
C17_OverlapRejected ==
  /\ fn_results # <<>>
  /\ fn_input.stage = "Enhancing"
  /\ ~fn_input.out.raised
  /\ 2 * Cardinality(WordSet(fn_input.reference) \cap WordSet(StageCandidate))
       < Cardinality(WordSet(fn_input.reference))
  => fn_results[1] = fn_input.reference

----------------------------------------------------------------------------
\* C18: the corrector is idempotent: applied to its own output it changes
\* nothing.
C18_Idempotent == Len(fn_results) >= 2 => fn_results[2] = fn_results[1]

----------------------------------------------------------------------------
\* C19: the corrector applies the contextual patterns first, without regard
\* to letter case, and the word-level lookup second, over the output of the
\* patterns, and keeps the punctuation mark that ends a word: 'archivo
\* packash.yasón' becomes 'archivo package.json', 'ejecuta pib instal
\* requaierments.txt' becomes 'ejecuta pip install requirements.txt', 'subir
\* guit jab' becomes 'subir git jab' (no pattern sees the corrected 'git'),
\* 'Subir guitjab' becomes 'Subir GitHub', a misheard word followed by a
\* punctuation mark becomes the term followed by that mark, and the empty
\* text stays empty.
C19_Expected(text) ==
  CASE text = <<>> -> <<>>
    [] text = ArchivoPackash -> <<"archivo", " ", "package", ".", "json">>
    [] text = EjecutaPib ->
         <<"ejecuta", " ", "pip", " ", "install", " ", "requirements", ".", "txt">>
    [] text = SubirGuitJab -> <<"subir", " ", "git", " ", "jab">>
    [] text = SubirGuitjab -> <<"Subir", " ", "GitHub">>
    [] Len(text) = 2 /\ Lower(text[1]) = "guit" /\ IsPunct(text[2]) -> <<"git", text[2]>>
    [] OTHER -> fn_results[1]

C19_ContextThenWords ==
  fn_results # <<>> => fn_results[1] = C19_Expected(fn_input)

C19_Witness ==
  /\ fn_input = EjecutaPib
  /\ Len(fn_results) = 1

\* C20: a run enters its stages in the order Transcribing, Correcting,
\* Cleaning, Translating, Enhancing, and every run that produced a
\* transcription has entered the Correcting stage exactly once, whatever
\* quality.fix_technical_terms says and whichever transcription path gave
\* the text.
StageRank(stage) ==
  CASE stage = "Transcribing" -> 1
    [] stage = "Correcting" -> 2
    [] stage = "Cleaning" -> 3
    [] stage = "Translating" -> 4
    [] stage = "Enhancing" -> 5

C20_StageOrder ==
  \A r \in RunIds :
    /\ \A i, j \in 1..Len(runs[r].stages) :
         i < j => StageRank(runs[r].stages[i]) < StageRank(runs[r].stages[j])
    /\ InChain(r) /\ runs[r].transcribed # None =>
         Cardinality({i \in 1..Len(runs[r].stages) :
                        runs[r].stages[i] = "Correcting"}) = 1

\* C21: when future.result(timeout=30) times out, initialize_models goes on
\* to nothing but its handler: the call returns False, it sets the
\* initialized flag to False and never to True, it loads neither the
\* translation model nor Qwen, and it starts no thread; a thread that loads
\* the models is started only by TranscribeApp.run or by a start_recording
\* request.
C21_Abandoned ==
  \A i \in InitIds :
    timed_out[i] =>
      /\ init_pc[i] \in {"im_except", "im_result", "done"}
      /\ init_pc[i] \in {"im_result", "done"} => success[i] = Some(FALSE)

C21_Step ==
  /\ \A i \in InitIds :
       timed_out'[i] /\ init_pc'[i] # init_pc[i] =>
         /\ translation_model' = translation_model
         /\ qwen_processor' = qwen_processor
         /\ is_initialized' => is_initialized
         /\ init_pc[i] = "im_except" => ~is_initialized'
         /\ \A k \in InitIds \ {i} : init_pc'[k] = init_pc[k]
  /\ \A i \in InitIds \ {1} :
       init_pc[i] = "unborn" /\ init_pc'[i] # "unborn" =>
         \E h \in Hotkeys : pc[h] = "as_init" /\ pc'[h] = "done"

C21_LoadTimeout == []C21_Abandoned /\ [][C21_Step]_vars

\* a call timed out and has returned, the flag is False, and the load it
\* abandoned has stored the model since
C21_Witness ==
  \E i \in InitIds :
    /\ timed_out[i] /\ init_pc[i] = "done" /\ success[i] = Some(FALSE)
    /\ load_future[i] = "done" /\ whisper_model
    /\ ~is_initialized /\ ~translation_model

\* C28: at most one thread is inside ModelManager.initialize_models at any
\* time.
C28_OneLoad ==
  Cardinality({i \in InitIds :
                 init_pc[i] \in {"im_check", "im_submit", "im_wait", "im_translation",
                                 "im_qwen", "im_set", "im_except"}}) <= 1

\* C22: every processing thread that was started reaches its end, and a
\* thread that has ended holds neither the processing lock nor the model
\* lock, whether its run delivered a text, found no speech or failed; so the
\* locks are free whenever no run is under way.
C22_Ended ==
  \A r \in RunIds :
    runs[r].pc = "done" => processing_lock # r /\ model_lock # r

C22_RunEnds ==
  /\ \A r \in 1..MaxRuns : <>[](r \in RunIds => runs[r].pc = "done")
  /\ []C22_Ended
  /\ []((\A r \in RunIds : ~InChain(r)) => processing_lock = 0 /\ model_lock = 0)

\* a run that failed has ended and released the lock, and the run submitted
\* after it has ended with a delivered text
C22_Witness ==
  /\ Len(runs) = 2
  /\ runs[1].pc = "done" /\ runs[1].status = "Processing failed"
  /\ runs[2].pc = "done" /\ runs[2].status = "success"
  /\ processing_lock = 0
  /\ \E i \in 1..Len(injected) : injected[i][1] = 2

\* C23: starting a capture does not depend on the pipeline.  A start_recording
\* that finds the application not recording goes on whether or not a run holds
\* the processing lock; every segment a stop or an auto-stop obtained becomes a
\* run; a run waits until the lock is free and takes it itself; and no run
\* is removed, changed to another segment or ended without having held the lock.
C23_Step ==
  /\ \A h \in Hotkeys :
       (pc[h] = "as_check" /\ pc'[h] # "as_check" /\ ~app_is_recording /\ is_initialized)
         => pc'[h] = "as_set"
  /\ \A t \in Threads :
       (ret[t] # None /\ ret'[t] = None) => runs' = Append(runs, NewRun(ret[t][1]))
  /\ Len(runs') >= Len(runs)
  /\ \A r \in RunIds :
       /\ runs'[r].audio = runs[r].audio
       /\ runs[r].pc = "done" => runs'[r] = runs[r]
       /\ (runs[r].pc = "spawned" /\ runs'[r].pc # "spawned")
            => processing_lock = 0 /\ processing_lock' = r /\ runs'[r].pc = "prepare"
       /\ (runs[r].pc = "prepare" /\ runs'[r].pc # "prepare")
            => runs'[r].pc = "done" /\ processing_lock = r /\ processing_lock' = 0

C23_StartIndependent == [][C23_Step]_vars

\* run 1 holds the lock while a second capture is under way and has buffered
\* a sample that arrived after run 1's segment
C23_Witness ==
  /\ Len(runs) = 1 /\ runs[1].pc = "prepare" /\ processing_lock = 1
  /\ is_recording /\ Len(audio_buffer) > 0
  /\ \A i \in 1..Len(audio_buffer) : \A j \in 1..Len(runs[1].audio) :
       audio_buffer[i] > runs[1].audio[j]

\* C24: a loud chunk stored by the audio callback at any moment of a polling
\* tick only clears the silence timer: the capture loop never fails on reading
\* the timer.  (Stated for captures with a single hotkey press so far, where
\* nothing but the audio callback can have cleared the timer.)
C24_LoudChunkHarmless ==
  \A l \in LoopIds :
    (\A h \in Hotkeys \ {MaxPresses + 1} : pc[h] = "idle")
      => pc[l] # "raise_close"

\* C25: the segment of a capture is handed to the pipeline at most once: no
\* two processing threads were started on segments that hold the same sample.
C25_HandedOnce ==
  \A r1 \in RunIds : \A r2 \in RunIds :
    r1 < r2 =>
      \A i \in 1..Len(runs[r1].audio) : \A j \in 1..Len(runs[r2].audio) :
        runs[r1].audio[i] # runs[r2].audio[j]

\* C26: at most one capture loop feeds the buffer.  A capture thread that is
\* no longer the recorder's recording_thread never goes on polling (it is not
\* revived by a later start), and while a stop_recording is about to read a
\* buffer of samples captured before the new start, no start_recording
\* empties it.
C26_Step ==
  /\ \A l \in LoopIds :
       (pc[l] = "while" /\ pc'[l] = "check_timer") => recording_thread = l
  /\ \A h \in Hotkeys :
       (/\ pc[h] = "sr_collect"
        /\ audio_buffer # <<>>
        /\ \A i \in 1..Len(audio_buffer) : audio_buffer[i] <= captureBase)
         => audio_buffer' # <<>>

C26_OneLoop == [][C26_Step]_vars

\* C27: once every toggle_recording call has returned and no capture thread
\* is in the middle of stopping or failing, the application's is_recording
\* flag equals the recorder's.
C27_FlagsAgree ==
  (/\ \A h \in Hotkeys : pc[h] \in {"idle", "done"}
   /\ \A l \in LoopIds : pc[l] \in {"unborn", "open", "while", "check_timer", "elapsed", "done"})
    => app_is_recording = is_recording

\* C29: a settings change that disables the enhancement model during a run
\* never turns a run whose transcription and translation both succeeded into
\* an error: when ModelManager.process_audio returns, such a run has its
\* original and its translated text as the result.
C29_DisableHarmless ==
  \A r \in RunIds :
    (/\ runs[r].pc = "pa_result"
     /\ runs[r].text # <<>>
     /\ runs[r].translated # <<>>
     /\ ~runs[r].tl_raised)
      => /\ runs[r].result.error = ""
         /\ runs[r].result.original = runs[r].text
         /\ runs[r].result.translated = runs[r].translated

\* C30: runs that wait for the processing lock at the same time acquire it in
\* the order in which their segments were captured: a waiting run takes the
\* lock only when no run created before it is still waiting.  Hence the
\* results are injected in the order of capture.
C30_Step ==
  \A r \in RunIds :
    (runs[r].pc = "spawned" /\ runs'[r].pc # "spawned")
      => \A q \in 1..(r - 1) : runs[q].pc # "spawned"

C30_InOrder ==
  /\ [][C30_Step]_vars
  /\ [](\A i \in 1..Len(injected) : \A j \in 1..Len(injected) :
          i < j => injected[i][1] < injected[j][1])

====
